---------------------------- MODULE Spec2Model ----------------------------
(***************************************************************************)
(* Frame lifecycle and resource-ownership core of the JVK renderer.        *)
(*                                                                         *)
(* The repository holds two rewrites of the same engine: jvk::Engine       *)
(* (src/src/Engine.cpp) and JVKEngine (src/src/engine.cpp).  Both are      *)
(* modelled; the variable impl says which one a behaviour runs.            *)
(* The device is a second timeline: a queue of submissions and presents    *)
(* executed in order by GPUExecute, and a presentation engine that hands   *)
(* presented images back (PresentRelease).                                 *)
(***************************************************************************)
EXTENDS Integers, Sequences, FiniteSets, TLC

(***************************************************************************)
(* Bounds of the model.                                                    *)
(***************************************************************************)
\* longest deletion queue exercised by the stand-alone DeletionQueue runs
MaxLen == 3
\* frames after which the run loop of the model stops drawing
MaxFrames == 3

(***************************************************************************)
(* Program constants.                                                      *)
(***************************************************************************)
\* engine.hpp:118  constexpr unsigned int JVK_NUM_FRAMES = 2
JVK_NUM_FRAMES == 2
\* Engine.cpp:169  initInfo.ImageCount = 3 (images of the swapchain)
ImageCount == 3

VARIABLES
    \* ---- components checked on their own ----
    mesh,              \* one call of Engine::uploadMesh and the device work it submits
    descriptors,       \* a growable and a static descriptor allocator
    \* ---- DeletionQueue under test (engine.hpp:84-97) ----
    deletors,          \* std::stack<std::function<void()>>, bottom first
    invoked,           \* recorder: the actions run by the most recent flush()
    pushed,            \* recorder: arguments of the push() calls since the last flush()
    lastBatch,         \* recorder: value of pushed when the most recent flush() began
    lastCall,          \* recorder: the most recent call, "none" | "push" | "flush"
    prevCall,          \* recorder: the call before it
    \* ---- the engine (Engine.cpp / engine.cpp) ----
    impl,              \* "Engine" (jvk::Engine) or "JVKEngine"
    pc,                \* "constructed" | "initialized" | "running" | "returned" |
                       \* "aborted" | "destroyed"
    frameRelease,      \* whether drawGeometry pushes the release of its per-frame
                       \* buffer (Engine.cpp:454-458, disabled in this revision)
    isInit_,           \* Engine::isInit_ / JVKEngine::_isInitialized
    frameNumber_,      \* Engine::frameNumber_ / JVKEngine::_frameNumber
    frames_,           \* Engine::frames_ / JVKEngine::_frames, slot -> FrameData
    windowResize_,     \* Engine::windowResize_
    stopRendering_,    \* Engine::stopRendering_ / JVKEngine::_stopRendering
    windowExtent_,     \* Engine::windowExtent_ / JVKEngine::_windowExtent
    swapchain_,        \* Engine::swapchain_ (the extent it was built for)
    globalDeletionQueue_,  \* Engine::globalDeletionQueue_
    swapchainImageIndex,   \* local of draw(): the index the last draw() worked with
    \* ---- the device and the window system ----
    gpuQueue,          \* operations handed to the graphics queue, oldest first
    imageState,        \* swapchain image -> "free" | "acquired" | "queued"
    surface,           \* drawable size of the window as the window system has it
    \* ---- recorder of the native layer ----
    calls,             \* the calls and steps of the most recent draw() or
                       \* destroy()/cleanup(), in order
    drawResult,        \* "none" | "completed" | "abandoned" | "fatal"
    iteration,         \* what the most recent iteration of run() did before and
                       \* instead of draw(), in order
    natives            \* native object -> how many more times it was created
                       \* than destroyed

compVars == <<mesh, descriptors>>

dqVars == <<deletors, invoked, pushed, lastBatch, lastCall, prevCall>>

engineVars == <<compVars, impl, pc, frameRelease, isInit_, frameNumber_, frames_, windowResize_,
                stopRendering_, windowExtent_, swapchain_, globalDeletionQueue_,
                swapchainImageIndex, gpuQueue, imageState, surface, calls,
                drawResult, iteration, natives>>

vars == <<mesh, descriptors, deletors, invoked, pushed, lastBatch, lastCall, prevCall,
          impl, pc, frameRelease, isInit_, frameNumber_, frames_, windowResize_,
          stopRendering_, windowExtent_, swapchain_, globalDeletionQueue_,
          swapchainImageIndex, gpuQueue, imageState, surface, calls,
          drawResult, iteration, natives>>

(***************************************************************************)
(* Sequence helpers.                                                       *)
(***************************************************************************)
Reverse(s) == [i \in 1..Len(s) |-> s[Len(s) + 1 - i]]

(***************************************************************************)
(* DeletionQueue (engine.hpp:84-97).  An action is identified by a name;   *)
(* running it appends the name to the recorder.                            *)
(***************************************************************************)
Actions == {"A", "B", "C"}

\* std::stack over std::deque: top() is the back, pop() removes the back
stack_top(s) == s[Len(s)]
stack_pop(s) == SubSeq(s, 1, Len(s) - 1)
stack_push(s, f) == Append(s, f)

\* void push(std::function<void()> &&function) { deletors.push(function); }
DeletionQueue_push(q, f) == stack_push(q, f)

\* A flush that runs the actions oldest first (a queue instead of a stack).
RECURSIVE DeletionQueue_flush_fifo(_, _)
DeletionQueue_flush_fifo(q, log) ==
    IF q = <<>>
    THEN [deletors |-> q, invoked |-> log]
    ELSE DeletionQueue_flush_fifo(Tail(q), Append(log, Head(q)))

\* A flush whose loop stops one element early (while (deletors.size() > 1)).
RECURSIVE DeletionQueue_flush_short(_, _)
DeletionQueue_flush_short(q, log) ==
    IF Len(q) <= 1
    THEN [deletors |-> q, invoked |-> log]
    ELSE DeletionQueue_flush_short(stack_pop(q), Append(log, stack_top(q)))

\* void flush() { while (!deletors.empty()) { deletors.top()(); deletors.pop(); } }
\* Returns the queue left behind and the recorder extended by the actions run.
RECURSIVE DeletionQueue_flush(_, _)
DeletionQueue_flush(q, log) ==
    IF q = <<>>
    THEN [deletors |-> q, invoked |-> log]
    ELSE DeletionQueue_flush(stack_pop(q), Append(log, stack_top(q)))

InitDQ ==
    /\ deletors = <<>>
    /\ invoked = <<>>
    /\ pushed = <<>>
    /\ lastBatch = <<>>
    /\ lastCall = "none"
    /\ prevCall = "none"

Push(f) ==
    /\ Len(deletors) < MaxLen
    /\ deletors' = DeletionQueue_push(deletors, f)
    /\ pushed' = Append(pushed, f)
    /\ lastCall' = "push"
    /\ prevCall' = lastCall
    /\ UNCHANGED <<invoked, lastBatch>>
    /\ UNCHANGED engineVars

Flush ==
    /\ LET r == DeletionQueue_flush(deletors, <<>>)
       IN  /\ deletors' = r.deletors
           /\ invoked' = r.invoked
    /\ lastBatch' = pushed
    /\ pushed' = <<>>
    /\ lastCall' = "flush"
    /\ prevCall' = lastCall
    /\ UNCHANGED engineVars

NextDQ ==
    \/ \E f \in Actions : Push(f)
    \/ Flush

(***************************************************************************)
(* The engine: data.                                                       *)
(***************************************************************************)
Slots == 0 .. (JVK_NUM_FRAMES - 1)
Images == 0 .. (ImageCount - 1)
\* what the uninitialised local swapchainImageIndex (Engine.cpp:306) may
\* hold: the index of any image, or a value out of range (ImageCount)
IndexValues == 0 .. ImageCount

\* _windowExtent{1700, 900} (engine.hpp:125), in units of 100 pixels
InitialExtent == [width |-> 17, height |-> 9]
\* the extent drawImage_ and depthImage_ are created with (Engine.cpp:191-194)
DrawImageExtent == InitialExtent
\* float renderScale = 1.0f (engine.hpp:149), in tenths; the slider of
\* Engine.cpp:389 is left where it is
renderScale == 10
\* drawable sizes the window system may report
Extents == {InitialExtent, [width |-> 12, height |-> 12]}

Handle(kind, s) == [kind |-> kind, slot |-> s]

\* what init() creates and destroy()/cleanup() destroys: the window, the
\* instance and device, the swapchain, the per-frame pools, fences and
\* semaphores
NativeObjects == {"window", "context", "swapchain", "frames"}

\* every native object created once more / destroyed once more
CreateAll(n) == [o \in DOMAIN n |-> n[o] + 1]
DestroyAll(n) == [o \in DOMAIN n |-> n[o] - 1]
Image(name, i) == [image |-> name, index |-> i]
drawImage_ == Image("drawImage_", 0)
depthImage_ == Image("depthImage_", 0)
SwapchainImage(i) == Image("swapchain_.images", i)

\* struct FrameData (engine.hpp:99-116) before initCommands/initSyncStructures
FrameData ==
    [drawFence          |-> [signaled |-> FALSE, pending |-> 0],
     swapchainSemaphore |-> FALSE,
     drawSemaphore      |-> FALSE,
     mainCommandBuffer  |-> [state |-> "initial", cmds |-> <<>>],
     deletionQueue      |-> <<>>,
     outstanding        |-> 0]

\* a getCurrentFrame() that always returns the first slot
getCurrentFrame_first(n) == 0

\* FrameData &getCurrentFrame() { return _frames[_frameNumber % JVK_NUM_FRAMES]; }
getCurrentFrame(n) == n % JVK_NUM_FRAMES

State ==
    [impl |-> impl, pc |-> pc, frameRelease |-> frameRelease,
     isInit |-> isInit_, frameNumber |-> frameNumber_,
     frames |-> frames_, windowResize |-> windowResize_,
     stopRendering |-> stopRendering_, windowExtent |-> windowExtent_,
     swapchain |-> swapchain_, globalDeletionQueue |-> globalDeletionQueue_,
     swapchainImageIndex |-> swapchainImageIndex, gpuQueue |-> gpuQueue,
     imageState |-> imageState, surface |-> surface, calls |-> calls,
     drawResult |-> drawResult, iteration |-> iteration,
     natives |-> natives]

Becomes(e) ==
    /\ UNCHANGED compVars
    /\ impl' = e.impl
    /\ frameRelease' = e.frameRelease
    /\ pc' = e.pc
    /\ isInit_' = e.isInit
    /\ frameNumber_' = e.frameNumber
    /\ frames_' = e.frames
    /\ windowResize_' = e.windowResize
    /\ stopRendering_' = e.stopRendering
    /\ windowExtent_' = e.windowExtent
    /\ swapchain_' = e.swapchain
    /\ globalDeletionQueue_' = e.globalDeletionQueue
    /\ swapchainImageIndex' = e.swapchainImageIndex
    /\ gpuQueue' = e.gpuQueue
    /\ imageState' = e.imageState
    /\ surface' = e.surface
    /\ calls' = e.calls
    /\ drawResult' = e.drawResult
    /\ iteration' = e.iteration
    /\ natives' = e.natives

Log(e, c) == [e EXCEPT !.calls = Append(@, c)]

(***************************************************************************)
(* The device: semaphores, fences, the graphics queue, the swapchain.      *)
(***************************************************************************)
\* VK_NULL_HANDLE / nullptr where a semaphore is expected
NullHandle == Handle("null", 0)
NullSemaphoreInfo == [semaphore |-> NullHandle, stageMask |-> "NONE"]

SemaphoreSignaled(e, h) ==
    CASE h.kind = "swapchainSemaphore" -> e.frames[h.slot].swapchainSemaphore
      [] h.kind = "drawSemaphore" -> e.frames[h.slot].drawSemaphore
      [] OTHER -> TRUE

SetSemaphore(e, h, v) ==
    CASE h.kind = "swapchainSemaphore" ->
            [e EXCEPT !.frames[h.slot].swapchainSemaphore = v]
      [] h.kind = "drawSemaphore" ->
            [e EXCEPT !.frames[h.slot].drawSemaphore = v]
      [] OTHER -> e

\* a queue operation starts when the semaphore it waits on is signalled
Executable(e, op) == SemaphoreSignaled(e, op.wait)

\* the queue cannot make progress: nothing will signal what its head waits for
GPUStalled(e) == e.gpuQueue # <<>> /\ ~Executable(e, Head(e.gpuQueue))

\* the swapchain was built for a size the window no longer has
Stale(e) == e.surface # e.swapchain.extent

\* a wait that returns at once, whatever the fence's state
vkWaitForFences_early(e, s) == "VK_SUCCESS"

\* vkWaitForFences(device, 1, &fence, true, 1000000000): "blocks" while a
\* submission that will signal the fence is executing
vkWaitForFences(e, s) ==
    LET f == e.frames[s].drawFence
    IN  IF f.signaled THEN "VK_SUCCESS"
        ELSE IF f.pending > 0 /\ ~GPUStalled(e) THEN "blocks"
        ELSE "VK_TIMEOUT"

\* the results vkAcquireNextImageKHR can give in state e, with the value the
\* index variable holds afterwards (written on success, untouched otherwise)
AcquireCan(e, r, i) ==
    CASE r = "VK_SUCCESS" -> i \in Images /\ e.imageState[i] = "free"
      [] r = "VK_SUBOPTIMAL_KHR" ->
            Stale(e) /\ i \in Images /\ e.imageState[i] = "free"
      [] r = "VK_ERROR_OUT_OF_DATE_KHR" -> Stale(e) /\ i \in IndexValues
      [] r = "VK_ERROR_SURFACE_LOST_KHR" -> i \in IndexValues
      [] OTHER -> FALSE

AcquireResults ==
    {"VK_SUCCESS", "VK_SUBOPTIMAL_KHR", "VK_ERROR_OUT_OF_DATE_KHR",
     "VK_ERROR_SURFACE_LOST_KHR"}

Acquired(r) == r \in {"VK_SUCCESS", "VK_SUBOPTIMAL_KHR"}

\* an acquire that signals the semaphore whatever it returns
vkAcquireNextImageKHR_signalAlways(e, sem, r, i) ==
    SetSemaphore(IF Acquired(r) THEN [e EXCEPT !.imageState[i] = "acquired"] ELSE e,
                 sem, TRUE)

\* vkAcquireNextImageKHR(device, swapchain, timeout, semaphore, nullptr, &index)
vkAcquireNextImageKHR(e, sem, r, i) ==
    IF Acquired(r)
    THEN SetSemaphore([e EXCEPT !.imageState[i] = "acquired"], sem, TRUE)
    ELSE e

PresentCan(e, r) ==
    \/ r \in {"VK_SUCCESS", "VK_ERROR_SURFACE_LOST_KHR"}
    \/ Stale(e) /\ r \in {"VK_SUBOPTIMAL_KHR", "VK_ERROR_OUT_OF_DATE_KHR"}

PresentResults ==
    {"VK_SUCCESS", "VK_ERROR_OUT_OF_DATE_KHR", "VK_ERROR_SURFACE_LOST_KHR"}

\* vkQueueSubmit2(queue, 1, &info, fence): the submission is queued and the
\* fence and the command buffer are pending until it has executed
vkQueueSubmit2(e, info, fence) ==
    [e EXCEPT
        !.gpuQueue = Append(@, [op |-> "submit",
                                cmd |-> info.pCommandBufferInfos,
                                wait |-> info.pWaitSemaphoreInfos.semaphore,
                                signal |-> info.pSignalSemaphoreInfos.semaphore,
                                fence |-> fence]),
        !.frames[fence.slot].drawFence.pending = @ + 1,
        !.frames[info.pCommandBufferInfos].mainCommandBuffer.state = "pending"]

\* vkQueuePresentKHR(queue, &presentInfo): the semaphore wait is queued
\* whatever the result; the image is shown unless the request was rejected
vkQueuePresentKHR(e, sem, i, r) ==
    [e EXCEPT !.gpuQueue = Append(@, [op |-> "present", wait |-> sem,
                                     index |-> i, shown |-> Acquired(r)])]

\* the queue executes its oldest operation
GPU_execute(e) ==
    LET op == Head(e.gpuQueue)
        e1 == SetSemaphore([e EXCEPT !.gpuQueue = Tail(@)], op.wait, FALSE)
    IN  IF op.op = "submit"
        THEN [SetSemaphore(e1, op.signal, TRUE) EXCEPT
                !.frames[op.fence.slot].drawFence =
                    [signaled |-> TRUE, pending |-> @.pending - 1],
                !.frames[op.cmd].mainCommandBuffer.state = "invalid"]
        ELSE IF op.index \in Images /\ e1.imageState[op.index] = "acquired"
             THEN [e1 EXCEPT !.imageState[op.index] =
                                IF op.shown THEN "queued" ELSE "free"]
             ELSE e1


(***************************************************************************)
(* Recorded commands (what draw() puts into the slot's command buffer).    *)
(***************************************************************************)
\* a transitionImage whose barrier leaves the image in its old layout
transitionImage_keep(img, old, new) ==
    [cmd |-> "transitionImage", image |-> img, oldLayout |-> old, newLayout |-> old]

\* transitionImage(cmd, image, oldLayout, newLayout)
transitionImage(img, old, new) ==
    [cmd |-> "transitionImage", image |-> img, oldLayout |-> old, newLayout |-> new]

\* copyImage(cmd, source, destination, srcSize, dstSize)
copyImage(src, dst, srcSize, dstSize) ==
    [cmd |-> "copyImage", src |-> src, dst |-> dst,
     srcSize |-> srcSize, dstSize |-> dstSize]

\* the layouts the blit of copyImage names for its source and destination
copyImage_layouts ==
    [src |-> "TRANSFER_SRC_OPTIMAL", dst |-> "TRANSFER_DST_OPTIMAL"]

NullAttachment ==
    [imageView |-> Image("nullptr", 0), imageLayout |-> "UNDEFINED",
     loadOp |-> "NONE", storeOp |-> "NONE"]

\* create::attachmentInfo(view, clear, layout)   (vk/Render.hpp:7-22)
attachmentInfo(view, clear, layout) ==
    [imageView |-> view, imageLayout |-> layout,
     loadOp |-> IF clear # "nullptr" THEN "CLEAR" ELSE "LOAD",
     storeOp |-> "STORE"]

\* create::depthAttachmentInfo(view, layout)     (vk/Render.hpp:24-35)
depthAttachmentInfo(view, layout) ==
    [imageView |-> view, imageLayout |-> layout,
     loadOp |-> "CLEAR", storeOp |-> "STORE"]

\* create::renderingInfo(renderExtent, colorAttachment, depthAttachment)
\*                                               (vk/Render.hpp:37-53)
renderingInfo(renderExtent, colorAttachment, depthAttachment) ==
    [renderArea |-> renderExtent,
     colorAttachmentCount |-> 1, colorAttachment |-> colorAttachment,
     depthAttachment |-> depthAttachment, stencilAttachment |-> NullAttachment]


(***************************************************************************)
(* jvk::Engine (Engine.cpp).                                               *)
(***************************************************************************)
\* the teardown actions init() registers, in the order of registration
Engine_teardown ==
    <<"allocator_",                        \* initVulkan      (Engine.cpp:132)
      "depthImage_ drawImage_",            \* initSwapchain   (Engine.cpp:209)
      "immediateBuffer_",                  \* initCommands    (Engine.cpp:234)
      "descriptorAllocator_ drawImageDescriptorLayout_",   \* (Engine.cpp:266)
      "frames_[0].descriptors",            \* initDescriptors (Engine.cpp:282)
      "frames_[1].descriptors",
      "gpuSceneDataLayout_",               \* initDescriptors (Engine.cpp:293)
      "meshPipeline_",                     \* initMeshPipeline (Engine.cpp:556)
      "ImGui imguiPool",                   \* initImGUI       (Engine.cpp:182)
      "scene">>                            \* initDummyData   (Engine.cpp:564)

RECURSIVE PushAll(_, _)
PushAll(q, fs) ==
    IF fs = <<>> THEN q ELSE PushAll(DeletionQueue_push(q, Head(fs)), Tail(fs))

\* an init() whose initSyncStructures creates the fences unsignalled
Engine_init_unsignalled(e) ==
    [e EXCEPT
        !.swapchain = [extent |-> e.windowExtent],
        !.imageState = [i \in Images |-> "free"],
        !.frames = [s \in Slots |-> FrameData],
        !.globalDeletionQueue = PushAll(@, Engine_teardown),
        !.natives = CreateAll(@),
        !.isInit = TRUE,
        !.pc = "initialized"]

\* void Engine::init(), every step succeeding
Engine_init(e) ==
    [e EXCEPT
        !.swapchain = [extent |-> e.windowExtent],
        !.imageState = [i \in Images |-> "free"],
        !.frames = [s \in Slots |->
                      [FrameData EXCEPT !.drawFence.signaled = TRUE]],
        !.globalDeletionQueue = PushAll(@, Engine_teardown),
        !.natives = CreateAll(@),
        !.isInit = TRUE,
        !.pc = "initialized"]

\* a resizeSwapchain() that flushes the global deletion queue as well
Engine_resizeSwapchain_flushing(e) ==
    IF e.gpuQueue # <<>>
    THEN [e EXCEPT !.drawResult = "blocked"]
    ELSE Log([e EXCEPT
                !.windowExtent = e.surface,
                !.swapchain = [extent |-> e.surface],
                !.imageState = [i \in Images |-> "free"],
                !.globalDeletionQueue = <<>>,
                !.windowResize = FALSE],
             [call |-> "globalDeletionQueue_.flush",
              ran |-> Reverse(e.globalDeletionQueue)])

\* a resizeSwapchain() that does not wait for the device
Engine_resizeSwapchain_noWait(e) ==
    [e EXCEPT
        !.windowExtent = e.surface,
        !.swapchain = [extent |-> e.surface],
        !.imageState = [i \in Images |-> "free"],
        !.windowResize = FALSE,
        !.iteration = @ \o
            <<[call |-> "vkDeviceWaitIdle", pending |-> Len(e.gpuQueue)],
              [call |-> "swapchain_.destroy"],
              [call |-> "SDL_GetWindowSize", extent |-> e.surface],
              [call |-> "swapchain_.init", extent |-> e.surface,
               images |-> ImageCount, imageViews |-> ImageCount]>>]

\* void Engine::resizeSwapchain(); vkDeviceWaitIdle returns when the queue
\* has drained
Engine_resizeSwapchain(e) ==
    IF e.gpuQueue # <<>>
    THEN [e EXCEPT !.drawResult = "blocked"]
    ELSE [e EXCEPT
            !.windowExtent = e.surface,
            !.swapchain = [extent |-> e.surface],
            !.imageState = [i \in Images |-> "free"],
            !.windowResize = FALSE,
            !.iteration = @ \o
                <<[call |-> "vkDeviceWaitIdle", pending |-> Len(e.gpuQueue)],
                  [call |-> "swapchain_.destroy"],
                  [call |-> "SDL_GetWindowSize", extent |-> e.surface],
                  [call |-> "swapchain_.init", extent |-> e.surface,
                   images |-> ImageCount, imageViews |-> ImageCount]>>]

\* a wait whose result is not looked at
Fence_wait_lenient(r) == FALSE

\* Fence::wait: a wait that does not end in VK_SUCCESS ends the process
Fence_wait_fatal(r) == r # "VK_SUCCESS"

\* a draw() that does not wait for the slot's fence
draw_waitFence_skipped(e) ==
    LET s  == getCurrentFrame(e.frameNumber)
        e0 == [e EXCEPT !.calls = <<>>, !.drawResult = "inProgress"]
    IN  Log(e0, [call |-> "waitFence", slot |-> s, result |-> "VK_SUCCESS",
                 signaled |-> e.frames[s].drawFence.signaled,
                 pending |-> e.frames[s].drawFence.pending])

\* auto &frame = getCurrentFrame(); frame.drawFence.wait(context_);
draw_waitFence(e) ==
    LET s  == getCurrentFrame(e.frameNumber)
        r  == vkWaitForFences(e, s)
        e0 == [e EXCEPT !.calls = <<>>, !.drawResult = "inProgress"]
        e1 == Log(e0, [call |-> "waitFence", slot |-> s, result |-> r,
                      signaled |-> e.frames[s].drawFence.signaled,
                      pending |-> e.frames[s].drawFence.pending])
    IN  IF r = "blocks" THEN [e EXCEPT !.drawResult = "blocked"]
        ELSE IF Fence_wait_fatal(r)
        THEN [e1 EXCEPT !.pc = "aborted", !.drawResult = "fatal"]
        ELSE [e1 EXCEPT !.frames[s].outstanding = 0]

\* the submissions of slot s the device has not finished
Executing(e, s) ==
    Cardinality({k \in 1..Len(e.gpuQueue) :
                    /\ e.gpuQueue[k].op = "submit"
                    /\ e.gpuQueue[k].fence.slot = s})

\* frame.deletionQueue.flush(); frame.descriptors.clearPools(context_);
draw_flushAndClear(e) ==
    LET s == getCurrentFrame(e.frameNumber)
        r == DeletionQueue_flush(e.frames[s].deletionQueue, <<>>)
        e1 == [e EXCEPT !.frames[s].deletionQueue = r.deletors]
    IN  Log(Log(e1, [call |-> "flush", slot |-> s, ran |-> r.invoked,
                     executing |-> Executing(e, s)]),
            [call |-> "clearPools", slot |-> s])

\* a reset that leaves the fence as it is
draw_resetFence_none(e) ==
    Log(e, [call |-> "resetFence", slot |-> getCurrentFrame(e.frameNumber)])

\* frame.drawFence.reset(context_);
draw_resetFence(e) ==
    LET s == getCurrentFrame(e.frameNumber)
    IN  Log([e EXCEPT !.frames[s].drawFence.signaled = FALSE],
            [call |-> "resetFence", slot |-> s])

\* a draw() that sets the flag on an out-of-date acquire but goes on
draw_acquire_noReturn(e, in) ==
    LET s   == getCurrentFrame(e.frameNumber)
        sem == Handle("swapchainSemaphore", s)
        e1  == vkAcquireNextImageKHR(e, sem, in.acquire, in.index)
        e2  == Log([e1 EXCEPT !.swapchainImageIndex = in.index],
                   [call |-> "acquire", semaphore |-> sem,
                    signaled |-> SemaphoreSignaled(e, sem),
                    result |-> in.acquire, index |-> in.index])
    IN  IF in.acquire = "VK_ERROR_OUT_OF_DATE_KHR"
        THEN [e2 EXCEPT !.windowResize = TRUE]
        ELSE e2

\* swapchain_.acquireNextImage(context_, frame.swapchainSemaphore, index);
\* on VK_ERROR_OUT_OF_DATE_KHR: windowResize_ = true; return;
draw_acquire(e, in) ==
    LET s   == getCurrentFrame(e.frameNumber)
        sem == Handle("swapchainSemaphore", s)
        e1  == vkAcquireNextImageKHR(e, sem, in.acquire, in.index)
        e2  == Log([e1 EXCEPT !.swapchainImageIndex = in.index],
                   [call |-> "acquire", semaphore |-> sem,
                    signaled |-> SemaphoreSignaled(e, sem),
                    result |-> in.acquire, index |-> in.index])
    IN  IF in.acquire = "VK_ERROR_OUT_OF_DATE_KHR"
        THEN [e2 EXCEPT !.windowResize = TRUE, !.drawResult = "abandoned"]
        ELSE e2

\* vkDeviceWaitIdle(device): returns when the queue has drained
vkDeviceWaitIdle(e) == IF e.gpuQueue = <<>> THEN "VK_SUCCESS" ELSE "blocks"

RECURSIVE LogAll(_, _)
LogAll(e, cs) == IF cs = <<>> THEN e ELSE LogAll(Log(e, Head(cs)), Tail(cs))

\* the body of the loop over frames_ in Engine::destroy (Engine.cpp:47-53)
RECURSIVE Engine_destroyFrames(_, _)
Engine_destroyFrames(e, s) ==
    IF s \notin Slots THEN e
    ELSE LET r  == DeletionQueue_flush(e.frames[s].deletionQueue, <<>>)
             e1 == LogAll(e, <<[call |-> "commandPool.destroy", slot |-> s],
                               [call |-> "drawFence.destroy", slot |-> s],
                               [call |-> "drawSemaphore.destroy", slot |-> s],
                               [call |-> "swapchainSemaphore.destroy", slot |-> s],
                               [call |-> "flush", slot |-> s, ran |-> r.invoked,
                                executing |-> Executing(e, s)]>>)
         IN  Engine_destroyFrames(
                 [e1 EXCEPT !.frames[s].deletionQueue = r.deletors], s + 1)

\* a destroy() that destroys the swapchain and the context before it flushes
\* the global deletion queue
Engine_destroy_contextFirst(e) ==
    IF ~e.isInit THEN e
    ELSE IF vkDeviceWaitIdle(e) = "blocks" THEN [e EXCEPT !.drawResult = "blocked"]
    ELSE LET e0 == Log([e EXCEPT !.calls = <<>>, !.drawResult = "none"],
                       [call |-> "vkDeviceWaitIdle", pending |-> Len(e.gpuQueue)])
             e1 == LogAll(Engine_destroyFrames(e0, 0),
                          <<[call |-> "swapchain_.destroy"],
                            [call |-> "context_.destroy"]>>)
             r  == DeletionQueue_flush(e1.globalDeletionQueue, <<>>)
             e2 == Log([e1 EXCEPT !.globalDeletionQueue = r.deletors],
                       [call |-> "globalDeletionQueue_.flush", ran |-> r.invoked])
         IN  [Log(e2, [call |-> "SDL_DestroyWindow"])
                EXCEPT !.pc = "destroyed", !.natives = DestroyAll(@)]

\* void Engine::destroy()
Engine_destroy(e) ==
    IF ~e.isInit THEN e
    ELSE IF vkDeviceWaitIdle(e) = "blocks" THEN [e EXCEPT !.drawResult = "blocked"]
    ELSE LET e0 == Log([e EXCEPT !.calls = <<>>, !.drawResult = "none"],
                       [call |-> "vkDeviceWaitIdle", pending |-> Len(e.gpuQueue)])
             e1 == Engine_destroyFrames(e0, 0)
             r  == DeletionQueue_flush(e1.globalDeletionQueue, <<>>)
             e2 == Log([e1 EXCEPT !.globalDeletionQueue = r.deletors],
                       [call |-> "globalDeletionQueue_.flush", ran |-> r.invoked])
         IN  [LogAll(e2, <<[call |-> "swapchain_.destroy"],
                           [call |-> "context_.destroy"],
                           [call |-> "SDL_DestroyWindow"]>>)
                EXCEPT !.pc = "destroyed", !.natives = DestroyAll(@)]

Min(a, b) == IF a < b THEN a ELSE b

\* what passing the unset VkShaderModule of a failed load to the native
\* layer can do: the process dies in buildPipeline, or in
\* vkDestroyShaderModule, or both calls return
ShaderOutcomes == {"buildPipeline", "vkDestroyShaderModule", "returns"}

\* void Engine::init() when loadShaderModule fails in initMeshPipeline():
\* the failure is printed, the layout is created, the pipeline is built from
\* the shader handle the failed load never wrote, the handle is destroyed
\* and the release of layout and pipeline is pushed
Engine_init_shaderFailed(e, outcome) ==
    LET e0 == LogAll([Engine_init(e) EXCEPT !.calls = <<>>],
                     <<[call |-> "loadShaderModule", ok |-> FALSE],
                       [call |-> "vkCreatePipelineLayout"],
                       [call |-> "buildPipeline"]>>)
        e1 == Log(e0, [call |-> "vkDestroyShaderModule"])
        e2 == LogAll(e1, <<[call |-> "globalDeletionQueue_.push"],
                           [call |-> "initImGUI"], [call |-> "initDummyData"]>>)
        died(x) == [x EXCEPT !.pc = "crashed", !.isInit = FALSE,
                             !.globalDeletionQueue = <<>>]
    IN  CASE outcome = "buildPipeline" -> died(e0)
          [] outcome = "vkDestroyShaderModule" -> died(e1)
          [] OTHER -> [e2 EXCEPT !.pc = "brokenPipeline"]

\* the ways vkb can fail in initVulkan
InitFailures == {"instance", "physicalDevice"}

\* the steps of Engine::init() after initVulkan()
Engine_laterSteps ==
    <<"initSwapchain", "initCommands", "initSyncStructures", "initDescriptors",
      "initPipelines", "initImGUI", "initDummyData">>

\* void Engine::init() when initVulkan() fails: initVulkan prints and
\* returns, and init() goes on to the later steps with the handles of
\* context_ unset.  What those steps do with null handles is undefined: the
\* process crashes inside the n-th of them, or (n past the last) all of them
\* return and init() sets isInit_.
Engine_init_failed(e, failure, n) ==
    LET entered == SubSeq(Engine_laterSteps, 1, Min(n, Len(Engine_laterSteps)))
        e1 == LogAll([e EXCEPT !.calls = <<>>],
                     <<[call |-> "initSDL"],
                       [call |-> "initVulkan", result |-> failure]>>
                     \o [k \in 1..Len(entered) |-> [call |-> entered[k]]])
    IN  IF n > Len(Engine_laterSteps)
        THEN [e1 EXCEPT !.isInit = TRUE, !.pc = "undefined"]
        ELSE [e1 EXCEPT !.pc = "crashed"]

\* uint32_t = uint32_t * float, the product truncated
Scaled(x, scale) == (x * scale) \div 10

\* drawImageExtent_ as draw() computes it (Engine.cpp:315-316)
Engine_drawImageExtent(e) ==
    [height |-> Scaled(Min(e.swapchain.extent.height, DrawImageExtent.width),
                       renderScale),
     width  |-> Scaled(Min(e.swapchain.extent.width, DrawImageExtent.width),
                       renderScale)]

\* void Engine::drawBackground(cmd)
Engine_drawBackground ==
    <<[cmd |-> "vkCmdClearColorImage", image |-> drawImage_, layout |-> "GENERAL"]>>

\* void Engine::drawGeometry(cmd)
Engine_drawGeometry(extent) ==
    LET colorAttachment == attachmentInfo(drawImage_, "nullptr",
                                          "COLOR_ATTACHMENT_OPTIMAL")
        depthAttachment == depthAttachmentInfo(depthImage_,
                                               "DEPTH_ATTACHMENT_OPTIMAL")
        renderInfo == renderingInfo(extent, colorAttachment, depthAttachment)
    IN  <<[cmd |-> "vkCmdBeginRendering", info |-> renderInfo],
          [cmd |-> "vkCmdSetViewport", extent |-> extent],
          [cmd |-> "vkCmdSetScissor", extent |-> extent],
          [cmd |-> "vkCmdDrawIndexed"],
          [cmd |-> "vkCmdEndRendering"]>>

\* void Engine::drawUI(cmd, targetImageView)
Engine_drawUI(e, targetImageView) ==
    LET colorAttachment == attachmentInfo(targetImageView, "nullptr",
                                          "COLOR_ATTACHMENT_OPTIMAL")
        renderInfo == renderingInfo(e.swapchain.extent, colorAttachment,
                                    NullAttachment)
    IN  <<[cmd |-> "vkCmdBeginRendering", info |-> renderInfo],
          [cmd |-> "ImGui_ImplVulkan_RenderDrawData"],
          [cmd |-> "vkCmdEndRendering"]>>

\* draw() with the transition that Engine.cpp:324 has commented out in the
\* place of the one of Engine.cpp:323
Engine_commands_fromUndefined(e) ==
    LET target == SwapchainImage(e.swapchainImageIndex)
        extent == Engine_drawImageExtent(e)
    IN    <<transitionImage(drawImage_, "UNDEFINED", "GENERAL")>>
       \o Engine_drawBackground
       \o <<transitionImage(drawImage_, "UNDEFINED", "COLOR_ATTACHMENT_OPTIMAL"),
            transitionImage(depthImage_, "UNDEFINED", "DEPTH_ATTACHMENT_OPTIMAL")>>
       \o Engine_drawGeometry(extent)
       \o <<transitionImage(drawImage_, "COLOR_ATTACHMENT_OPTIMAL",
                            "TRANSFER_SRC_OPTIMAL"),
            transitionImage(target, "UNDEFINED", "TRANSFER_DST_OPTIMAL"),
            copyImage(drawImage_, target, extent, e.swapchain.extent),
            transitionImage(target, "TRANSFER_DST_OPTIMAL",
                            "COLOR_ATTACHMENT_OPTIMAL")>>
       \o Engine_drawUI(e, target)
       \o <<transitionImage(target, "COLOR_ATTACHMENT_OPTIMAL", "PRESENT_SRC_KHR")>>

\* draw() with the depth transition recorded after drawGeometry
Engine_commands_lateDepth(e) ==
    LET target == SwapchainImage(e.swapchainImageIndex)
        extent == Engine_drawImageExtent(e)
    IN    <<transitionImage(drawImage_, "UNDEFINED", "GENERAL")>>
       \o Engine_drawBackground
       \o <<transitionImage(drawImage_, "GENERAL", "COLOR_ATTACHMENT_OPTIMAL")>>
       \o Engine_drawGeometry(extent)
       \o <<transitionImage(depthImage_, "UNDEFINED", "DEPTH_ATTACHMENT_OPTIMAL"),
            transitionImage(drawImage_, "COLOR_ATTACHMENT_OPTIMAL",
                            "TRANSFER_SRC_OPTIMAL"),
            transitionImage(target, "UNDEFINED", "TRANSFER_DST_OPTIMAL"),
            copyImage(drawImage_, target, extent, e.swapchain.extent),
            transitionImage(target, "TRANSFER_DST_OPTIMAL",
                            "COLOR_ATTACHMENT_OPTIMAL")>>
       \o Engine_drawUI(e, target)
       \o <<transitionImage(target, "COLOR_ATTACHMENT_OPTIMAL", "PRESENT_SRC_KHR")>>

\* what draw() records between beginCommandBuffer and endCommandBuffer
Engine_commands(e) ==
    LET target == SwapchainImage(e.swapchainImageIndex)
        extent == Engine_drawImageExtent(e)
    IN    <<transitionImage(drawImage_, "UNDEFINED", "GENERAL")>>
       \o Engine_drawBackground
       \o <<transitionImage(drawImage_, "GENERAL", "COLOR_ATTACHMENT_OPTIMAL"),
            transitionImage(depthImage_, "UNDEFINED", "DEPTH_ATTACHMENT_OPTIMAL")>>
       \o Engine_drawGeometry(extent)
       \o <<transitionImage(drawImage_, "COLOR_ATTACHMENT_OPTIMAL",
                            "TRANSFER_SRC_OPTIMAL"),
            transitionImage(target, "UNDEFINED", "TRANSFER_DST_OPTIMAL"),
            copyImage(drawImage_, target, extent, e.swapchain.extent),
            transitionImage(target, "TRANSFER_DST_OPTIMAL",
                            "COLOR_ATTACHMENT_OPTIMAL")>>
       \o Engine_drawUI(e, target)
       \o <<transitionImage(target, "COLOR_ATTACHMENT_OPTIMAL", "PRESENT_SRC_KHR")>>

\* vkResetCommandBuffer .. endCommandBuffer on the slot's command buffer
RecordCommandBuffer(e, cmds) ==
    LET s  == getCurrentFrame(e.frameNumber)
        e1 == Log(e, [call |-> "resetCommandBuffer", slot |-> s,
                      state |-> e.frames[s].mainCommandBuffer.state,
                      outstanding |-> e.frames[s].outstanding])
        e2 == Log(e1, [call |-> "begin", slot |-> s])
        e3 == [e2 EXCEPT !.frames[s].mainCommandBuffer =
                            [state |-> "executable", cmds |-> cmds]]
    IN  Log(e3, [call |-> "end", slot |-> s])

\* the block of Engine::drawGeometry that creates the per-frame scene buffer
\* and pushes its release on the slot's deletion queue (Engine.cpp:454-458)
Engine_drawGeometry_release(e) ==
    LET s == getCurrentFrame(e.frameNumber)
    IN  IF e.frameRelease
        THEN [e EXCEPT !.frames[s].deletionQueue =
                          DeletionQueue_push(@, "sceneDataBuffer")]
        ELSE e

\* Engine.cpp:312-337
draw_record(e) ==
    Engine_drawGeometry_release(RecordCommandBuffer(e, Engine_commands(e)))


\* VkResult Queue::submit(cmdInfo, waitSemaphoreInfo, signalSemaphoreInfo, fence)
\* (jvk/queue.hpp:15-26): the VkSubmitInfo2 it builds
Queue_submit_info(cmdInfo, waitSemaphoreInfo, signalSemaphoreInfo) ==
    [waitSemaphoreInfoCount   |-> IF waitSemaphoreInfo = NullSemaphoreInfo THEN 0 ELSE 1,
     pWaitSemaphoreInfos      |-> waitSemaphoreInfo,
     signalSemaphoreInfoCount |-> IF signalSemaphoreInfo = NullSemaphoreInfo THEN 0 ELSE 1,
     pSignalSemaphoreInfos    |-> signalSemaphoreInfo,
     commandBufferInfoCount   |-> 1,
     pCommandBufferInfos      |-> cmdInfo]

\* submitCommandBuffer(queue, cmd, &waitSemaphore, &signalSemaphore, fence):
\* the free-function form of Queue::submit
submitCommandBuffer(cmd, waitSemaphore, signalSemaphore) ==
    Queue_submit_info(cmd, waitSemaphore, signalSemaphore)

\* Engine.cpp:339-342
draw_submit(e) ==
    LET s == getCurrentFrame(e.frameNumber)
        waitSemaphore   == [semaphore |-> Handle("swapchainSemaphore", s),
                            stageMask |-> "COLOR_ATTACHMENT_OUTPUT"]
        signalSemaphore == [semaphore |-> Handle("drawSemaphore", s),
                            stageMask |-> "ALL_GRAPHICS"]
        fence == Handle("drawFence", s)
        info  == submitCommandBuffer(s, waitSemaphore, signalSemaphore)
        e1    == vkQueueSubmit2(e, info, fence)
    IN  Log([e1 EXCEPT !.frames[s].outstanding = @ + 1],
            [call |-> "submit", info |-> info, fence |-> fence,
             signaled |-> e.frames[s].drawFence.signaled,
             pending |-> e.frames[s].drawFence.pending])

\* Engine.cpp:344-354
draw_present(e, in) ==
    LET s == getCurrentFrame(e.frameNumber)
        presentInfo == [pWaitSemaphores |-> Handle("drawSemaphore", s),
                        waitSemaphoreCount |-> 1,
                        pImageIndices |-> e.swapchainImageIndex,
                        swapchainCount |-> 1]
        e1 == vkQueuePresentKHR(e, presentInfo.pWaitSemaphores,
                                presentInfo.pImageIndices, in.present)
        e2 == Log(e1, [call |-> "present", info |-> presentInfo,
                       result |-> in.present])
    IN  IF in.present = "VK_ERROR_OUT_OF_DATE_KHR"
        THEN [e2 EXCEPT !.windowResize = TRUE]
        ELSE e2

\* a draw() that ends without counting the frame
draw_advance_none(e) ==
    Log([e EXCEPT !.drawResult = "completed"], [call |-> "frameNumber++"])

\* frameNumber_++;
draw_advance(e) ==
    Log([e EXCEPT !.frameNumber = @ + 1, !.drawResult = "completed"],
        [call |-> "frameNumber++"])

\* a draw() that flushes the slot's deletion queue after the acquire
Engine_draw_lateFlush(e, in) ==
    LET a == draw_waitFence(e)
    IN  IF a.drawResult \in {"blocked", "fatal"} THEN a
        ELSE LET b == draw_acquire(draw_resetFence(a), in)
             IN  IF b.drawResult = "abandoned" THEN b
                 ELSE draw_advance(draw_present(
                          draw_submit(draw_record(draw_flushAndClear(b))), in))

\* void Engine::draw()
Engine_draw(e, in) ==
    LET a == draw_waitFence(e)
    IN  IF a.drawResult \in {"blocked", "fatal"} THEN a
        ELSE LET b == draw_acquire(draw_resetFence(draw_flushAndClear(a)), in)
             IN  IF b.drawResult = "abandoned" THEN b
                 ELSE draw_advance(draw_present(draw_submit(draw_record(b)), in))

Events == {"SDL_QUIT", "SDL_WINDOWEVENT_MINIMIZED", "SDL_WINDOWEVENT_RESTORED"}

\* while (SDL_PollEvent(&e) != 0) { ... }  over the events waiting in the queue
RECURSIVE PollEvents(_, _)
PollEvents(evs, st) ==
    IF evs = <<>> THEN st
    ELSE LET ev == Head(evs)
             st1 == IF ev = "SDL_QUIT" THEN [st EXCEPT !.quit = TRUE] ELSE st
             st2 == IF ev = "SDL_WINDOWEVENT_MINIMIZED"
                    THEN [st1 EXCEPT !.stopRendering = TRUE] ELSE st1
             st3 == IF ev = "SDL_WINDOWEVENT_RESTORED"
                    THEN [st2 EXCEPT !.stopRendering = FALSE] ELSE st2
         IN  PollEvents(Tail(evs), st3)

\* run() calls draw(): the recorder notes what draw() finds
Run_draw(e) ==
    [e EXCEPT !.iteration =
        Append(@, [call |-> "draw", windowResize |-> e.windowResize,
                   extent |-> e.swapchain.extent])]

\* one iteration of the loop of Engine::run(), up to the call of draw()
Engine_run_head(e, evs) ==
    LET p  == PollEvents(evs, [quit |-> FALSE, stopRendering |-> e.stopRendering])
        e1 == [e EXCEPT !.stopRendering = p.stopRendering, !.pc = "running",
                        !.iteration = <<[call |-> "PollEvents", quit |-> p.quit,
                                         windowResize |-> e.windowResize]>>]
    IN  IF p.stopRendering
        THEN [e1 EXCEPT !.iteration = Append(@, [call |-> "sleep_for"])]
        ELSE LET e2 == IF e1.windowResize THEN Engine_resizeSwapchain(e1) ELSE e1
             IN  e2

\* the loop condition of a run() whose quit flag is never set
Run_tail_forever(e, evs) == e

\* the loop condition: run() returns after the iteration that saw SDL_QUIT
Run_tail(e, evs) ==
    IF e.pc # "aborted" /\ PollEvents(evs, [quit |-> FALSE, stopRendering |-> FALSE]).quit
    THEN [e EXCEPT !.pc = "returned"]
    ELSE e

\* an iteration that calls draw() whether or not rendering is stopped
Engine_run_always(e, evs, in) ==
    LET h == Engine_run_head(e, evs)
    IN  IF h.drawResult = "blocked"
        THEN Run_tail(h, evs)
        ELSE Run_tail(Engine_draw(Run_draw(h), in), evs)

\* the loop condition of a run() that never reads its quit flag
\* one iteration of the loop of Engine::run()
Engine_run(e, evs, in) ==
    LET h == Engine_run_head(e, evs)
    IN  IF h.stopRendering \/ h.drawResult = "blocked"
        THEN Run_tail(h, evs)
        ELSE Run_tail(Engine_draw(Run_draw(h), in), evs)


(***************************************************************************)
(* JVKEngine (engine.cpp).                                                 *)
(***************************************************************************)
\* VK_CHECK(x): a result other than VK_SUCCESS ends the process
VK_CHECK(r) == r # "VK_SUCCESS"

Abort(e) == [e EXCEPT !.pc = "aborted", !.drawResult = "fatal"]

\* void JVKEngine::init(), every step succeeding
JVKEngine_init(e) ==
    [e EXCEPT
        !.swapchain = [extent |-> e.windowExtent],
        !.imageState = [i \in Images |-> "free"],
        !.frames = [s \in Slots |->
                      [FrameData EXCEPT !.drawFence.signaled = TRUE]],
        !.natives = CreateAll(@),
        !.isInit = TRUE,
        !.pc = "initialized"]

\* void JVKEngine::init() when initVulkan() fails: abort()
JVKEngine_init_failed(e, failure) ==
    Abort(LogAll([e EXCEPT !.calls = <<>>],
                 <<[call |-> "SDL_CreateWindow"],
                   [call |-> "initVulkan", result |-> failure],
                   [call |-> "abort"]>>))

\* VkInit::submit(&cmdInfo, &signalInfo, &waitInfo)
VkInit_submit(cmdInfo, signalInfo, waitInfo) ==
    [waitSemaphoreInfoCount   |-> IF waitInfo = NullSemaphoreInfo THEN 0 ELSE 1,
     pWaitSemaphoreInfos      |-> waitInfo,
     signalSemaphoreInfoCount |-> IF signalInfo = NullSemaphoreInfo THEN 0 ELSE 1,
     pSignalSemaphoreInfos    |-> signalInfo,
     commandBufferInfoCount   |-> 1,
     pCommandBufferInfos      |-> cmdInfo]

\* void JVKEngine::drawGeometry(cmd)
JVKEngine_drawGeometry(extent) ==
    LET colorAttachment == attachmentInfo(drawImage_, "nullptr",
                                          "COLOR_ATTACHMENT_OPTIMAL")
        renderingInfo_  == renderingInfo(extent, colorAttachment, NullAttachment)
    IN  <<[cmd |-> "vkCmdBeginRendering", info |-> renderingInfo_],
          [cmd |-> "vkCmdSetViewport", extent |-> extent],
          [cmd |-> "vkCmdSetScissor", extent |-> extent],
          [cmd |-> "vkCmdDraw"],
          [cmd |-> "vkCmdEndRendering"]>>

\* void JVKEngine::drawImgui(cmd, targetImageView)
JVKEngine_drawImgui(e, targetImageView) ==
    LET colorAttachment == attachmentInfo(targetImageView, "nullptr",
                                          "COLOR_ATTACHMENT_OPTIMAL")
        renderInfo == renderingInfo(e.swapchain.extent, colorAttachment,
                                    NullAttachment)
    IN  <<[cmd |-> "vkCmdBeginRendering", info |-> renderInfo],
          [cmd |-> "ImGui_ImplVulkan_RenderDrawData"],
          [cmd |-> "vkCmdEndRendering"]>>

\* what JVKEngine::draw() records (engine.cpp:136-172)
JVKEngine_commands(e) ==
    LET target == SwapchainImage(e.swapchainImageIndex)
        extent == DrawImageExtent
    IN    <<transitionImage(drawImage_, "UNDEFINED", "GENERAL"),
            [cmd |-> "vkCmdDispatch", image |-> drawImage_, layout |-> "GENERAL"],
            transitionImage(drawImage_, "GENERAL", "COLOR_ATTACHMENT_OPTIMAL")>>
       \o JVKEngine_drawGeometry(extent)
       \o <<transitionImage(drawImage_, "COLOR_ATTACHMENT_OPTIMAL",
                            "TRANSFER_SRC_OPTIMAL"),
            transitionImage(target, "UNDEFINED", "TRANSFER_DST_OPTIMAL"),
            copyImage(drawImage_, target, extent, e.swapchain.extent),
            transitionImage(target, "TRANSFER_DST_OPTIMAL",
                            "COLOR_ATTACHMENT_OPTIMAL")>>
       \o JVKEngine_drawImgui(e, target)
       \o <<transitionImage(target, "COLOR_ATTACHMENT_OPTIMAL", "PRESENT_SRC_KHR")>>

\* engine.cpp:117-119: wait for and reset the render fence
JVKEngine_draw_fence(e) ==
    LET s  == getCurrentFrame(e.frameNumber)
        r  == vkWaitForFences(e, s)
        e0 == [e EXCEPT !.calls = <<>>, !.drawResult = "inProgress"]
        e1 == Log(e0, [call |-> "waitFence", slot |-> s, result |-> r,
                      signaled |-> e.frames[s].drawFence.signaled,
                      pending |-> e.frames[s].drawFence.pending])
    IN  IF r = "blocks" THEN [e EXCEPT !.drawResult = "blocked"]
        ELSE IF VK_CHECK(r) THEN Abort(e1)
        ELSE Log([e1 EXCEPT !.frames[s].outstanding = 0,
                            !.frames[s].drawFence.signaled = FALSE],
                 [call |-> "resetFence", slot |-> s])

\* engine.cpp:121-123: request an image from the swapchain
JVKEngine_draw_acquire(e, in) ==
    LET s   == getCurrentFrame(e.frameNumber)
        sem == Handle("swapchainSemaphore", s)
        e1  == vkAcquireNextImageKHR(e, sem, in.acquire, in.index)
        e2  == Log([e1 EXCEPT !.swapchainImageIndex = in.index],
                   [call |-> "acquire", semaphore |-> sem,
                    signaled |-> SemaphoreSignaled(e, sem),
                    result |-> in.acquire, index |-> in.index])
    IN  IF VK_CHECK(in.acquire) THEN Abort(e2) ELSE e2

\* engine.cpp:177-185: submit the buffer
JVKEngine_draw_submit(e) ==
    LET s == getCurrentFrame(e.frameNumber)
        waitInfo   == [semaphore |-> Handle("swapchainSemaphore", s),
                       stageMask |-> "COLOR_ATTACHMENT_OUTPUT"]
        signalInfo == [semaphore |-> Handle("drawSemaphore", s),
                       stageMask |-> "ALL_GRAPHICS"]
        submit == VkInit_submit(s, signalInfo, waitInfo)
        fence  == Handle("drawFence", s)
        e1     == vkQueueSubmit2(e, submit, fence)
    IN  Log([e1 EXCEPT !.frames[s].outstanding = @ + 1],
            [call |-> "submit", info |-> submit, fence |-> fence,
             signaled |-> e.frames[s].drawFence.signaled,
             pending |-> e.frames[s].drawFence.pending])

\* engine.cpp:187-196: present
JVKEngine_draw_present(e, in) ==
    LET s == getCurrentFrame(e.frameNumber)
        presentInfo == [pWaitSemaphores |-> Handle("drawSemaphore", s),
                        waitSemaphoreCount |-> 1,
                        pImageIndices |-> e.swapchainImageIndex,
                        swapchainCount |-> 1]
        e1 == vkQueuePresentKHR(e, presentInfo.pWaitSemaphores,
                                presentInfo.pImageIndices, in.present)
        e2 == Log(e1, [call |-> "present", info |-> presentInfo,
                       result |-> in.present])
    IN  IF VK_CHECK(in.present) THEN Abort(e2) ELSE e2

\* void JVKEngine::draw()
JVKEngine_draw(e, in) ==
    LET a == JVKEngine_draw_fence(e)
    IN  IF a.drawResult \in {"blocked", "fatal"} THEN a
        ELSE LET b == JVKEngine_draw_acquire(a, in)
             IN  IF b.drawResult = "fatal" THEN b
                 ELSE LET c == JVKEngine_draw_present(
                                  JVKEngine_draw_submit(
                                      RecordCommandBuffer(b, JVKEngine_commands(b))),
                                  in)
                      IN  IF c.drawResult = "fatal" THEN c ELSE draw_advance(c)

\* the body of the loop over _frames in JVKEngine::cleanup (engine.cpp:62-71)
RECURSIVE JVKEngine_cleanupFrames(_, _)
JVKEngine_cleanupFrames(e, s) ==
    IF s \notin Slots THEN e
    ELSE LET r  == DeletionQueue_flush(e.frames[s].deletionQueue, <<>>)
             e1 == LogAll(e, <<[call |-> "vkDestroyCommandPool", slot |-> s],
                               [call |-> "vkDestroyFence", slot |-> s],
                               [call |-> "vkDestroySemaphore(_renderSemaphore)", slot |-> s],
                               [call |-> "vkDestroySemaphore(_swapchainSemaphore)", slot |-> s],
                               [call |-> "flush", slot |-> s, ran |-> r.invoked,
                                executing |-> Executing(e, s)]>>)
         IN  JVKEngine_cleanupFrames(
                 [e1 EXCEPT !.frames[s].deletionQueue = r.deletors], s + 1)

\* void JVKEngine::cleanup()
JVKEngine_cleanup(e) ==
    IF ~e.isInit THEN e
    ELSE IF vkDeviceWaitIdle(e) = "blocks" THEN [e EXCEPT !.drawResult = "blocked"]
    ELSE LET e0 == Log([e EXCEPT !.calls = <<>>, !.drawResult = "none"],
                       [call |-> "vkDeviceWaitIdle", pending |-> Len(e.gpuQueue)])
             e1 == LogAll(JVKEngine_cleanupFrames(e0, 0),
                          <<[call |-> "ImGui_ImplVulkan_Shutdown"],
                            [call |-> "vkDestroyDescriptorPool(_imguiPool)"],
                            [call |-> "vkDestroyCommandPool(_immCommandPool)"],
                            [call |-> "vkDestroyFence(_immFence)"]>>)
             r  == DeletionQueue_flush(e1.globalDeletionQueue, <<>>)
             e2 == Log([e1 EXCEPT !.globalDeletionQueue = r.deletors],
                       [call |-> "globalDeletionQueue_.flush", ran |-> r.invoked])
         IN  [LogAll(e2, <<[call |-> "pipelines"],
                           [call |-> "_globalDescriptorAllocator.destroyPool"],
                           [call |-> "vkDestroyDescriptorSetLayout"],
                           [call |-> "_drawImage"],
                           [call |-> "vmaDestroyAllocator"],
                           [call |-> "destroySwapchain"],
                           [call |-> "vkDestroySurfaceKHR"],
                           [call |-> "vkDestroyDevice"],
                           [call |-> "vkDestroyInstance"],
                           [call |-> "SDL_DestroyWindow"]>>)
                EXCEPT !.pc = "destroyed", !.natives = DestroyAll(@)]

\* one iteration of the loop of JVKEngine::run()
JVKEngine_run(e, evs, in) ==
    LET p  == PollEvents(evs, [quit |-> FALSE, stopRendering |-> e.stopRendering])
        e1 == [e EXCEPT !.stopRendering = p.stopRendering, !.pc = "running"]
        e2 == [e1 EXCEPT !.iteration = <<[call |-> "PollEvents", quit |-> p.quit,
                                          windowResize |-> e.windowResize]>>]
    IN  IF p.stopRendering
        THEN Run_tail([e2 EXCEPT !.iteration = Append(@, [call |-> "sleep_for"])], evs)
        ELSE Run_tail(JVKEngine_draw(Run_draw(e2), in), evs)

(***************************************************************************)
(* Engine::uploadMesh (Engine.cpp:474-515) and the immediate submit it     *)
(* uses.  Buffers are modelled byte by byte: each byte records where its   *)
(* value came from.                                                        *)
(***************************************************************************)
MaxVertices == 4
MaxIndices == 6

sizeofVertex == 48      \* vec3, float, vec3, float, vec4
sizeofIndex == 4        \* uint32_t

Byte(src, at) == [src |-> src, at |-> at]
Garbage == Byte("uninitialised", 0)

\* Allocator::createBuffer(allocSize, usage, memoryUsage)
createBuffer(allocSize) ==
    [size |-> allocSize, alive |-> TRUE,
     data |-> [b \in 0..(allocSize - 1) |-> Garbage]]

NoBuffer == [createBuffer(0) EXCEPT !.alive = FALSE]

\* memcpy((char *) data + off, src.data(), n) into the mapped buffer
memcpy(buf, off, src, n) ==
    [buf EXCEPT !.data = [b \in DOMAIN @ |->
                            IF off <= b /\ b < off + n THEN Byte(src, b - off)
                            ELSE @[b]]]

\* vkCmdCopyBuffer(cmd, src, dst, 1, &region)
vkCmdCopyBuffer(src, dst, srcOffset, dstOffset, size) ==
    [cmd |-> "vkCmdCopyBuffer", src |-> src, dst |-> dst,
     srcOffset |-> srcOffset, dstOffset |-> dstOffset, size |-> size]

\* no call of uploadMesh is under way
NoMesh ==
    [pc |-> "idle", vertices |-> 0, indices |-> 0,
     vertexBuffer |-> NoBuffer, indexBuffer |-> NoBuffer, staging |-> NoBuffer,
     immFence |-> [signaled |-> TRUE], cmds |-> <<>>, queue |-> <<>>,
     hung |-> FALSE, log |-> <<>>]

\* an uploadMesh whose index copy reads the staging buffer from offset 0
uploadMesh_begin_overlap(m) ==
    LET vertexBufferSize == m.vertices * sizeofVertex
        indexBufferSize  == m.indices * sizeofIndex
        staging == createBuffer(vertexBufferSize + indexBufferSize)
        cmds == <<vkCmdCopyBuffer("staging", "vertexBuffer", 0, 0, vertexBufferSize),
                  vkCmdCopyBuffer("staging", "indexBuffer", 0, 0, indexBufferSize)>>
    IN  [m EXCEPT
            !.vertexBuffer = createBuffer(vertexBufferSize),
            !.indexBuffer = createBuffer(indexBufferSize),
            !.staging = memcpy(memcpy(staging, 0, "vertices", vertexBufferSize),
                               vertexBufferSize, "indices", indexBufferSize),
            !.immFence.signaled = FALSE,
            !.cmds = cmds,
            !.queue = cmds,
            !.pc = "waiting"]

\* uploadMesh up to the point where immediateBuffer_.submit has handed the
\* recorded copies to the queue and starts to wait (Engine.cpp:474-510;
\* the submit resets its fence, records, and submits with that fence)
uploadMesh_begin(m) ==
    LET vertexBufferSize == m.vertices * sizeofVertex
        indexBufferSize  == m.indices * sizeofIndex
        staging == createBuffer(vertexBufferSize + indexBufferSize)
        cmds == <<vkCmdCopyBuffer("staging", "vertexBuffer", 0, 0, vertexBufferSize),
                  vkCmdCopyBuffer("staging", "indexBuffer", vertexBufferSize, 0,
                                  indexBufferSize)>>
    IN  [m EXCEPT
            !.vertexBuffer = createBuffer(vertexBufferSize),
            !.indexBuffer = createBuffer(indexBufferSize),
            !.staging = memcpy(memcpy(staging, 0, "vertices", vertexBufferSize),
                               vertexBufferSize, "indices", indexBufferSize),
            !.immFence.signaled = FALSE,
            !.cmds = cmds,
            !.queue = cmds,
            !.pc = "waiting"]

\* the device executes the oldest copy: bytes of a destroyed source are
\* whatever the freed memory holds
Device_copy(m) ==
    LET c   == Head(m.queue)
        src == m[c.src]
        rd(b) == IF src.alive /\ b \in DOMAIN src.data THEN src.data[b]
                 ELSE Byte("freed", 0)
        m1  == [m EXCEPT ![c.dst].data =
                   [b \in DOMAIN @ |->
                      IF c.dstOffset <= b /\ b < c.dstOffset + c.size
                      THEN rd(c.srcOffset + (b - c.dstOffset)) ELSE @[b]]]
    IN  [m1 EXCEPT
            !.queue = Tail(@),
            !.immFence.signaled = (Tail(m.queue) = <<>>),
            !.log = Append(@, [copy |-> c, srcAlive |-> src.alive])]

\* a wait on the immediate fence that returns at once
immFence_wait_early(m) == "VK_SUCCESS"

\* vkWaitForFences(device, 1, &immFence, true, 9999999999)
immFence_wait(m) ==
    IF m.immFence.signaled THEN "VK_SUCCESS"
    ELSE IF m.hung THEN "VK_TIMEOUT"
    ELSE "blocks"

\* the rest of uploadMesh: the wait of the immediate submit returns, the
\* staging buffer is destroyed, the mesh buffers are returned
uploadMesh_end(m) ==
    LET r == immFence_wait(m)
    IN  CASE r = "VK_SUCCESS" ->
                [m EXCEPT !.staging.alive = FALSE, !.pc = "returned",
                          !.log = Append(@, [wait |-> r, signaled |-> m.immFence.signaled])]
          [] r = "VK_TIMEOUT" ->
                [m EXCEPT !.pc = "aborted",
                          !.log = Append(@, [wait |-> r, signaled |-> m.immFence.signaled])]
          [] OTHER -> [m EXCEPT !.pc = "blocked"]


(***************************************************************************)
(* The descriptor allocators: DescriptorAllocator (one pool) and           *)
(* DynamicDescriptorAllocator (a list of pools that grows).  A pool holds  *)
(* maxSets sets and, per descriptor type, ratio * maxSets descriptors.     *)
(***************************************************************************)
MaxSets == 3            \* largest initial set count of a pool
MaxPools == 4           \* pools a growable allocator creates at most
maxSetsPerPool == 4     \* cap of the geometric growth

\* frameSizes of Engine::initDescriptors
frameSizes ==
    [STORAGE_IMAGE |-> 3, STORAGE_BUFFER |-> 3, UNIFORM_BUFFER |-> 3,
     COMBINED_IMAGE_SAMPLER |-> 4]

\* sizes of Engine::initDescriptors, for the static allocator
staticSizes == [STORAGE_IMAGE |-> 1]

\* vkCreateDescriptorPool for setCount sets, ratio * setCount descriptors each
createPool(id, setCount, ratios) ==
    [id |-> id, maxSets |-> setCount,
     poolSizes |-> [t \in DOMAIN ratios |-> ratios[t] * setCount],
     used |-> 0]

\* the set count of the pool created after one of n sets: n * 1.5, capped
Grow(n) == Min((n * 3) \div 2, maxSetsPerPool)

\* no allocator has been initialised
NoDescriptors ==
    [pc |-> "none",
     ratios |-> frameSizes, setsPerPool |-> 0, readyPools |-> <<>>,
     fullPools |-> <<>>, created |-> 0, destroyed |-> 0,
     pool |-> createPool(0, 0, staticSizes), poolsCreated |-> 0,
     last |-> [op |-> "none"]]

\* DynamicDescriptorAllocator::init(device, maxSets, ratios) and
\* DescriptorAllocator::initPool(device, maxSets, ratios)
Descriptors_init(d, maxSets) ==
    [d EXCEPT
        !.pc = "ready",
        !.ratios = frameSizes,
        !.readyPools = <<createPool(1, maxSets, frameSizes)>>,
        !.setsPerPool = Grow(maxSets),
        !.created = 1,
        !.pool = createPool(1, maxSets, staticSizes),
        !.poolsCreated = 1]

\* vkAllocateDescriptorSets from pool p
vkAllocateDescriptorSets(p) ==
    IF p.used < p.maxSets THEN "VK_SUCCESS" ELSE "VK_ERROR_OUT_OF_POOL_MEMORY"

\* a getPool whose new pools hold a single set
Dynamic_getPool_fresh(d) ==
    IF d.readyPools # <<>>
    THEN [pool |-> d.readyPools[Len(d.readyPools)],
          d |-> [d EXCEPT !.readyPools = SubSeq(@, 1, Len(@) - 1)]]
    ELSE [pool |-> createPool(d.created + 1, 1, d.ratios),
          d |-> [d EXCEPT !.created = @ + 1]]

\* DynamicDescriptorAllocator::getPool: the most recently readied pool if
\* there is one, else a new pool of setsPerPool sets
Dynamic_getPool(d) ==
    IF d.readyPools # <<>>
    THEN [pool |-> d.readyPools[Len(d.readyPools)],
          d |-> [d EXCEPT !.readyPools = SubSeq(@, 1, Len(@) - 1)]]
    ELSE [pool |-> createPool(d.created + 1, d.setsPerPool, d.ratios),
          d |-> [d EXCEPT !.created = @ + 1,
                          !.setsPerPool = Grow(@)]]

\* DynamicDescriptorAllocator::allocate(device, layout)
Dynamic_allocate(d) ==
    LET g1 == Dynamic_getPool(d)
        r1 == vkAllocateDescriptorSets(g1.pool)
        retired == [g1.d EXCEPT !.fullPools = Append(@, g1.pool)]
        g2 == IF r1 = "VK_SUCCESS" THEN g1 ELSE Dynamic_getPool(retired)
        r2 == vkAllocateDescriptorSets(g2.pool)
        p  == [g2.pool EXCEPT !.used = IF r2 = "VK_SUCCESS" THEN @ + 1 ELSE @]
    IN  [g2.d EXCEPT
            !.readyPools = Append(@, p),
            !.last = [op |-> "allocate", first |-> r1, result |-> r2,
                      from |-> p.id, tried |-> g1.pool.id, before |-> d.created,
                      readyBefore |-> Len(d.readyPools) - 1,
                      sizeBefore |-> d.setsPerPool]]

RECURSIVE ResetAll(_)
\* vkResetDescriptorPool on each pool of a list
ResetAll(ps) ==
    IF ps = <<>> THEN <<>>
    ELSE <<[Head(ps) EXCEPT !.used = 0]>> \o ResetAll(Tail(ps))

\* a clearPools that destroys the retired pools instead of resetting them
Dynamic_clearPools_destroying(d) ==
    [d EXCEPT
        !.readyPools = ResetAll(@),
        !.fullPools = <<>>,
        !.destroyed = @ + Len(d.fullPools),
        !.last = [op |-> "clearPools", before |-> d.created,
                  retired |-> Len(d.fullPools),
                  pools |-> Len(d.readyPools) + Len(d.fullPools)]]

\* DynamicDescriptorAllocator::clearPools(device)
Dynamic_clearPools(d) ==
    [d EXCEPT
        !.readyPools = ResetAll(@) \o ResetAll(d.fullPools),
        !.fullPools = <<>>,
        !.last = [op |-> "clearPools", before |-> d.created,
                  retired |-> Len(d.fullPools),
                  pools |-> Len(d.readyPools) + Len(d.fullPools)]]

\* a static allocate that replaces an exhausted pool by a new one
Static_allocate_growing(d) ==
    IF vkAllocateDescriptorSets(d.pool) = "VK_SUCCESS"
    THEN [d EXCEPT !.pool.used = @ + 1,
                   !.last = [op |-> "static.allocate", result |-> "VK_SUCCESS",
                             from |-> d.pool.id, usedBefore |-> d.pool.used]]
    ELSE [d EXCEPT !.pool = [createPool(d.poolsCreated + 1, d.pool.maxSets, staticSizes)
                               EXCEPT !.used = 1],
                   !.poolsCreated = @ + 1,
                   !.last = [op |-> "static.allocate", result |-> "VK_SUCCESS",
                             from |-> d.poolsCreated + 1, usedBefore |-> d.pool.used]]

\* DescriptorAllocator::allocate(device, layout): the result of
\* vkAllocateDescriptorSets is what the caller gets
Static_allocate(d) ==
    LET r == vkAllocateDescriptorSets(d.pool)
    IN  [d EXCEPT !.pool.used = IF r = "VK_SUCCESS" THEN @ + 1 ELSE @,
                  !.last = [op |-> "static.allocate", result |-> r,
                            from |-> d.pool.id, usedBefore |-> d.pool.used]]

\* DescriptorAllocator::resetPool(device)
Static_resetPool(d) ==
    [d EXCEPT !.pool.used = 0,
              !.last = [op |-> "static.resetPool", from |-> d.pool.id,
                        usedBefore |-> d.pool.used]]


(***************************************************************************)
(* The specification of the engine.                                        *)
(***************************************************************************)
\* what one iteration of run() finds waiting in the event queue: nothing, or
\* one event
EventSeqs == {<<>>} \cup {<<ev>> : ev \in Events}

InitEngine(impls) ==
    /\ impl \in impls
    /\ pc = "constructed"
    /\ isInit_ = FALSE
    /\ frameNumber_ = 0
    /\ frames_ = [s \in Slots |-> FrameData]
    /\ windowResize_ = FALSE
    /\ stopRendering_ = FALSE
    /\ windowExtent_ = InitialExtent
    /\ swapchain_ = [extent |-> InitialExtent]
    /\ globalDeletionQueue_ = <<>>
    /\ swapchainImageIndex = 0
    /\ gpuQueue = <<>>
    /\ imageState = [i \in Images |-> "free"]
    /\ surface = InitialExtent
    /\ calls = <<>>
    /\ drawResult = "none"
    /\ iteration = <<>>
    /\ natives = [o \in NativeObjects |-> 0]

Init ==
    /\ InitDQ /\ InitEngine({"Engine", "JVKEngine"}) /\ frameRelease = FALSE
    /\ mesh = NoMesh
    /\ descriptors = NoDescriptors

\* main calls engine.init()
EngineInit ==
    /\ impl = "Engine"
    /\ pc = "constructed"
    /\ \/ Becomes(Engine_init(State))
       \/ \E failure \in InitFailures, n \in 1..(Len(Engine_laterSteps) + 1) :
             Becomes(Engine_init_failed(State, failure, n))
       \/ \E outcome \in ShaderOutcomes :
             Becomes(Engine_init_shaderFailed(State, outcome))
    /\ UNCHANGED dqVars

JVKEngineInit ==
    /\ impl = "JVKEngine"
    /\ pc = "constructed"
    /\ \/ Becomes(JVKEngine_init(State))
       \/ \E failure \in InitFailures :
             Becomes(JVKEngine_init_failed(State, failure))
    /\ UNCHANGED dqVars

\* the results the native layer can give to the draw() that starts in state
\* h; a result no step of that draw() reads is left at its first value
Inputs(h, skipped) ==
    {in \in [acquire : AcquireResults, index : IndexValues, present : PresentResults] :
        IF skipped
        THEN in.acquire = "VK_SUCCESS" /\ in.index = 0 /\ in.present = "VK_SUCCESS"
        ELSE /\ AcquireCan(h, in.acquire, in.index)
             /\ PresentCan(h, in.present)
             /\ (in.acquire = "VK_ERROR_OUT_OF_DATE_KHR" =>
                    in.index = 0 /\ in.present = "VK_SUCCESS")}

\* one iteration of the loop of Engine::run()
EngineRun ==
    /\ impl = "Engine"
    /\ pc \in {"initialized", "running"}
    /\ frameNumber_ < MaxFrames
    /\ \E evs \in EventSeqs :
          LET h == Engine_run_head(State, evs)
          IN  /\ h.drawResult # "blocked"
              /\ \E in \in Inputs(h, h.stopRendering) :
                    LET after == Engine_run(State, evs, in)
                    IN  /\ after.drawResult # "blocked"
                        /\ Becomes(after)
    /\ UNCHANGED dqVars

\* one iteration of the loop of JVKEngine::run()
JVKEngineRun ==
    /\ impl = "JVKEngine"
    /\ pc \in {"initialized", "running"}
    /\ frameNumber_ < MaxFrames
    /\ \E evs \in EventSeqs :
          \E in \in Inputs(State, PollEvents(evs, [quit |-> FALSE,
                              stopRendering |-> stopRendering_]).stopRendering) :
             LET after == JVKEngine_run(State, evs, in)
             IN  /\ after.drawResult # "blocked"
                 /\ Becomes(after)
    /\ UNCHANGED dqVars

\* main calls engine.destroy(): after run() has returned, or on an engine
\* that was never initialised
EngineDestroy ==
    /\ impl = "Engine"
    /\ pc \in {"constructed", "returned"}
    /\ LET after == Engine_destroy(State)
       IN  /\ after.drawResult # "blocked"
           /\ Becomes(after)
    /\ UNCHANGED dqVars

\* main calls engine.cleanup()
JVKEngineCleanup ==
    /\ impl = "JVKEngine"
    /\ pc \in {"constructed", "returned"}
    /\ LET after == JVKEngine_cleanup(State)
       IN  /\ after.drawResult # "blocked"
           /\ Becomes(after)
    /\ UNCHANGED dqVars

\* the graphics queue executes its oldest operation
GPUExecute ==
    /\ gpuQueue # <<>>
    /\ Executable(State, Head(gpuQueue))
    /\ Becomes(GPU_execute(State))
    /\ UNCHANGED dqVars

\* the presentation engine is done with an image it was showing
PresentRelease ==
    /\ \E i \in Images :
          /\ imageState[i] = "queued"
          /\ imageState' = [imageState EXCEPT ![i] = "free"]
    /\ UNCHANGED <<compVars, impl, pc, frameRelease, isInit_, frameNumber_, frames_, windowResize_,
                   stopRendering_, windowExtent_, swapchain_,
                   globalDeletionQueue_, swapchainImageIndex,
                   gpuQueue, surface, calls, drawResult, iteration, natives>>
    /\ UNCHANGED dqVars

\* the user resizes the window (SDL_WINDOW_RESIZABLE, Engine.cpp:65)
WindowResized ==
    /\ impl = "Engine"
    /\ pc \in {"initialized", "running"}
    /\ \E x \in Extents : x # surface /\ surface' = x
    /\ UNCHANGED <<compVars, impl, pc, frameRelease, isInit_, frameNumber_, frames_, windowResize_,
                   stopRendering_, windowExtent_, swapchain_,
                   globalDeletionQueue_, swapchainImageIndex,
                   gpuQueue, imageState, calls, drawResult, iteration, natives>>
    /\ UNCHANGED dqVars

Next ==
    \/ EngineInit
    \/ JVKEngineInit
    \/ EngineRun
    \/ JVKEngineRun
    \/ EngineDestroy
    \/ JVKEngineCleanup
    \/ GPUExecute
    \/ PresentRelease
    \/ WindowResized

Spec == Init /\ [][Next]_vars

\* the submissions the device may execute now when the presentation engine
\* takes its time: those whose wait semaphore is signalled and that have
\* only present requests before them in the queue
Overtakers(e) ==
    {k \in 1..Len(e.gpuQueue) :
        /\ e.gpuQueue[k].op = "submit"
        /\ Executable(e, e.gpuQueue[k])
        /\ \A j \in 1..(k - 1) : e.gpuQueue[j].op = "present"}

\* the device executes submission k of the queue
GPU_overtake(e, k) ==
    LET q == e.gpuQueue
    IN  GPU_execute([e EXCEPT !.gpuQueue =
                        <<q[k]>> \o SubSeq(q, 1, k - 1) \o SubSeq(q, k + 1, Len(q))])

\* the device executes a submission while a present request queued before
\* it has not yet waited on its semaphore: the slot's fence, the only thing
\* draw() waits for, says nothing about the present request
GPUOvertake ==
    /\ \E k \in Overtakers(State) : k > 1 /\ Becomes(GPU_overtake(State, k))
    /\ UNCHANGED dqVars

NextPresent == Next \/ GPUOvertake

\* the engines with a presentation engine that consumes the semaphore of a
\* present request at a time of its own
SpecPresent == Init /\ [][NextPresent]_vars

\* main calls destroy() / cleanup() once more on an engine it has already
\* torn down; the calls are counted until one object has been destroyed
\* once more than it was created
DestroyAgain ==
    /\ pc = "destroyed"
    /\ \A o \in NativeObjects : natives[o] >= 0
    /\ \/ impl = "Engine" /\ Becomes(Engine_destroy(State))
       \/ impl = "JVKEngine" /\ Becomes(JVKEngine_cleanup(State))
    /\ UNCHANGED dqVars

NextLifecycle == Next \/ DestroyAgain

\* the engines under any number of destroy()/cleanup() calls
SpecLifecycle == Init /\ [][NextLifecycle]_vars

\* jvk::Engine with the per-frame release of Engine.cpp:454-458 in place
InitRelease ==
    /\ InitDQ /\ InitEngine({"Engine"}) /\ frameRelease = TRUE
    /\ mesh = NoMesh
    /\ descriptors = NoDescriptors

NextRelease ==
    \/ EngineInit
    \/ EngineRun
    \/ EngineDestroy
    \/ GPUExecute
    \/ PresentRelease
    \/ WindowResized

SpecRelease == InitRelease /\ [][NextRelease]_vars


\* the DeletionQueue alone: the engine stays as constructed
InitSpecDQ ==
    /\ InitDQ /\ InitEngine({"Engine"}) /\ frameRelease = FALSE
    /\ mesh = NoMesh
    /\ descriptors = NoDescriptors

SpecDQ == InitSpecDQ /\ [][NextDQ]_vars

\* std::function<void()> objects whose body may call push() on the queue
\* that holds them: pushes lists the actions the body still has to push
Closure(n, ps) == [name |-> n, pushes |-> ps]
Closures == {Closure(n, ps) : n \in Actions, ps \in {<<>>, <<"C">>}}

\* void flush() { while (!deletors.empty()) { deletors.top()(); deletors.pop(); } }
\* with the calls of push() the actions make while they run: top()() runs
\* the action in place, its pushes land above it, and pop() removes
\* whatever is on top when the action returns
RECURSIVE DeletionQueue_flush_running(_, _, _)
DeletionQueue_flush_running(q, log, during) ==
    IF q = <<>>
    THEN [deletors |-> q, invoked |-> log, during |-> during]
    ELSE LET f  == stack_top(q)
             q0 == [q EXCEPT ![Len(q)] = Closure(f.name, <<>>)]
             q1 == PushAll(q0, [k \in 1..Len(f.pushes) |->
                                    Closure(f.pushes[k], <<>>)])
         IN  DeletionQueue_flush_running(stack_pop(q1), Append(log, f.name),
                                         during \o f.pushes)

PushClosure(c) ==
    /\ Len(deletors) < MaxLen
    /\ deletors' = DeletionQueue_push(deletors, c)
    /\ pushed' = Append(pushed, c.name)
    /\ lastCall' = "push"
    /\ prevCall' = lastCall
    /\ UNCHANGED <<invoked, lastBatch>>
    /\ UNCHANGED engineVars

\* flush(): lastBatch is everything pushed since the last flush, by the
\* caller and by the actions themselves
FlushClosures ==
    /\ LET r == DeletionQueue_flush_running(deletors, <<>>, <<>>)
       IN  /\ deletors' = r.deletors
           /\ invoked' = r.invoked
           /\ lastBatch' = pushed \o r.during
           /\ lastCall' = IF r.during = <<>> THEN "flush" ELSE "flush pushed into"
    /\ pushed' = <<>>
    /\ prevCall' = lastCall
    /\ UNCHANGED engineVars

NextClosures ==
    \/ \E c \in Closures : PushClosure(c)
    \/ FlushClosures

\* the DeletionQueue alone, holding actions that may push
SpecClosures == InitSpecDQ /\ [][NextClosures]_vars

\* a call of uploadMesh with 1..MaxVertices vertices and 1..MaxIndices indices
InitUpload ==
    /\ InitDQ /\ InitEngine({"Engine"}) /\ frameRelease = FALSE
    /\ \E nv \in 1..MaxVertices, ni \in 1..MaxIndices :
          mesh = [NoMesh EXCEPT !.vertices = nv, !.indices = ni]
    /\ descriptors = NoDescriptors

UploadBegin ==
    /\ mesh.pc = "idle"
    /\ mesh' = uploadMesh_begin(mesh)
    /\ UNCHANGED <<dqVars, descriptors, impl, pc, frameRelease, isInit_, frameNumber_, frames_,
                   windowResize_, stopRendering_, windowExtent_, swapchain_,
                   globalDeletionQueue_, swapchainImageIndex, gpuQueue,
                   imageState, surface, calls, drawResult, iteration, natives>>

UploadEnd ==
    /\ mesh.pc = "waiting"
    /\ uploadMesh_end(mesh).pc # "blocked"
    /\ mesh' = uploadMesh_end(mesh)
    /\ UNCHANGED <<dqVars, descriptors, impl, pc, frameRelease, isInit_, frameNumber_, frames_,
                   windowResize_, stopRendering_, windowExtent_, swapchain_,
                   globalDeletionQueue_, swapchainImageIndex, gpuQueue,
                   imageState, surface, calls, drawResult, iteration, natives>>

\* the graphics queue executes the oldest copy of the immediate submit
DeviceCopy ==
    /\ mesh.queue # <<>>
    /\ ~mesh.hung
    /\ mesh' = Device_copy(mesh)
    /\ UNCHANGED <<dqVars, descriptors, impl, pc, frameRelease, isInit_, frameNumber_, frames_,
                   windowResize_, stopRendering_, windowExtent_, swapchain_,
                   globalDeletionQueue_, swapchainImageIndex, gpuQueue,
                   imageState, surface, calls, drawResult, iteration, natives>>

\* the device stops making progress with work outstanding
DeviceHang ==
    /\ mesh.queue # <<>>
    /\ ~mesh.hung
    /\ mesh' = [mesh EXCEPT !.hung = TRUE]
    /\ UNCHANGED <<dqVars, descriptors, impl, pc, frameRelease, isInit_, frameNumber_, frames_,
                   windowResize_, stopRendering_, windowExtent_, swapchain_,
                   globalDeletionQueue_, swapchainImageIndex, gpuQueue,
                   imageState, surface, calls, drawResult, iteration, natives>>

\* both allocators are initialised for 1..MaxSets sets
InitDescriptors ==
    /\ InitDQ /\ InitEngine({"Engine"}) /\ frameRelease = FALSE
    /\ mesh = NoMesh
    /\ \E n \in 1..MaxSets : descriptors = Descriptors_init(NoDescriptors, n)

DynamicAllocate ==
    /\ Dynamic_allocate(descriptors).created <= MaxPools
    /\ descriptors' = Dynamic_allocate(descriptors)
    /\ UNCHANGED <<dqVars, mesh, impl, pc, frameRelease, isInit_, frameNumber_, frames_,
                   windowResize_, stopRendering_, windowExtent_, swapchain_,
                   globalDeletionQueue_, swapchainImageIndex, gpuQueue,
                   imageState, surface, calls, drawResult, iteration, natives>>

DynamicClearPools ==
    /\ descriptors' = Dynamic_clearPools(descriptors)
    /\ UNCHANGED <<dqVars, mesh, impl, pc, frameRelease, isInit_, frameNumber_, frames_,
                   windowResize_, stopRendering_, windowExtent_, swapchain_,
                   globalDeletionQueue_, swapchainImageIndex, gpuQueue,
                   imageState, surface, calls, drawResult, iteration, natives>>

StaticAllocate ==
    /\ descriptors' = Static_allocate(descriptors)
    /\ UNCHANGED <<dqVars, mesh, impl, pc, frameRelease, isInit_, frameNumber_, frames_,
                   windowResize_, stopRendering_, windowExtent_, swapchain_,
                   globalDeletionQueue_, swapchainImageIndex, gpuQueue,
                   imageState, surface, calls, drawResult, iteration, natives>>

StaticResetPool ==
    /\ descriptors' = Static_resetPool(descriptors)
    /\ UNCHANGED <<dqVars, mesh, impl, pc, frameRelease, isInit_, frameNumber_, frames_,
                   windowResize_, stopRendering_, windowExtent_, swapchain_,
                   globalDeletionQueue_, swapchainImageIndex, gpuQueue,
                   imageState, surface, calls, drawResult, iteration, natives>>

NextDescriptors ==
    \/ DynamicAllocate
    \/ DynamicClearPools
    \/ StaticAllocate
    \/ StaticResetPool

SpecDescriptors == InitDescriptors /\ [][NextDescriptors]_vars

NextUpload ==
    \/ UploadBegin
    \/ UploadEnd
    \/ DeviceCopy
    \/ DeviceHang

SpecUpload == InitUpload /\ [][NextUpload]_vars

(***************************************************************************)
(* Claims about the DeletionQueue, checked under SpecDQ.                   *)
(***************************************************************************)
\* C1: after push(a1), ..., push(an) and then flush(), the flush has run
\* exactly a1..an, each once, in the order an, ..., a1.
C1_FlushRunsPushedInReverse == invoked = Reverse(lastBatch)

C1_Witness ==
    /\ lastCall = "flush"
    /\ lastBatch = <<"A", "B", "C">>
    /\ invoked = <<"C", "B", "A">>

\* C2: when flush() has returned the queue is empty, and a flush() of an
\* empty queue (a fresh one, or one flushed by the call before) runs no
\* action and leaves the queue empty.
C2_FlushLeavesEmpty ==
    lastCall = "flush" =>
        /\ deletors = <<>>
        /\ (prevCall \in {"none", "flush"} => invoked = <<>>)

C2_Witness ==
    /\ lastCall = "flush"
    /\ prevCall = "flush"
    /\ deletors = <<>>
    /\ invoked = <<>>
    /\ lastBatch = <<>>

(***************************************************************************)
(* Reading the recorder: calls holds the native calls of the draw() that   *)
(* ran last, frames_[s].mainCommandBuffer.cmds what was last recorded into *)
(* the command buffer of slot s.                                           *)
(***************************************************************************)
CallNames(cs) == [i \in 1..Len(cs) |-> cs[i].call]

IsTransitionOf(c, img) == c.cmd = "transitionImage" /\ c.image = img

\* the positions in cmds of the layout transitions of img
TransitionPositions(cmds, img) ==
    {k \in 1..Len(cmds) : IsTransitionOf(cmds[k], img)}

\* the (old layout, new layout) pairs of the transitions of img, in order
Transitions(cmds, img) ==
    LET ts == SelectSeq(cmds, LAMBDA c : IsTransitionOf(c, img))
    IN  [k \in 1..Len(ts) |-> <<ts[k].oldLayout, ts[k].newLayout>>]

\* the swapchain images that cmds transitions
SwapchainTargets(cmds) ==
    {cmds[k].image : k \in {j \in 1..Len(cmds) :
        /\ cmds[j].cmd = "transitionImage"
        /\ cmds[j].image.image = "swapchain_.images"}}

Recorded(s) == frames_[s].mainCommandBuffer.cmds # <<>>

DrawImageTransitions ==
    << <<"UNDEFINED", "GENERAL">>,
       <<"GENERAL", "COLOR_ATTACHMENT_OPTIMAL">>,
       <<"COLOR_ATTACHMENT_OPTIMAL", "TRANSFER_SRC_OPTIMAL">> >>

SwapchainImageTransitions ==
    << <<"UNDEFINED", "TRANSFER_DST_OPTIMAL">>,
       <<"TRANSFER_DST_OPTIMAL", "COLOR_ATTACHMENT_OPTIMAL">>,
       <<"COLOR_ATTACHMENT_OPTIMAL", "PRESENT_SRC_KHR">> >>

\* the slot the draw() in calls works on
DrawSlot == calls[1].slot

(***************************************************************************)
(* Claims about the frame protocol, checked under Spec.                    *)
(***************************************************************************)
\* C3: every reset of a slot's command buffer is preceded, in the same
\* draw(), by exactly one wait on that slot's fence; a fence has at most one
\* pending signal and none while it is signalled; and every wait is issued
\* on a fence that is signalled or that a submission is pending on.
C3_FenceProtocol ==
    /\ \A j \in 1..Len(calls) :
          calls[j].call = "resetCommandBuffer" =>
             Cardinality({i \in 1..(j - 1) :
                            /\ calls[i].call = "waitFence"
                            /\ calls[i].slot = calls[j].slot}) = 1
    /\ \A s \in Slots :
          /\ frames_[s].drawFence.pending <= 1
          /\ ~(frames_[s].drawFence.signaled /\ frames_[s].drawFence.pending > 0)
    /\ \A i \in 1..Len(calls) :
          calls[i].call = "waitFence" =>
             calls[i].signaled \/ calls[i].pending > 0

\* C4: at most one submission per slot is outstanding, at most
\* JVK_NUM_FRAMES submissions are queued in total, and a command buffer is
\* reset only when its slot has no outstanding submission and the buffer is
\* not pending execution.
C4_OneOutstandingPerSlot ==
    /\ \A s \in Slots :
          /\ frames_[s].outstanding <= 1
          /\ Cardinality({k \in 1..Len(gpuQueue) :
                            /\ gpuQueue[k].op = "submit"
                            /\ gpuQueue[k].fence.slot = s}) <= 1
    /\ Cardinality({k \in 1..Len(gpuQueue) : gpuQueue[k].op = "submit"})
          <= JVK_NUM_FRAMES
    /\ \A j \in 1..Len(calls) :
          calls[j].call = "resetCommandBuffer" =>
             /\ calls[j].outstanding = 0
             /\ calls[j].state # "pending"

\* both slots have a submission outstanding, the one of slot 0 made after
\* the slot was reused
C4_Witness ==
    /\ frameNumber_ = 3
    /\ drawResult = "completed"
    /\ \A s \in Slots : frames_[s].outstanding = 1
    /\ Len(gpuQueue) >= 2
    /\ \E j \in 1..Len(calls) :
          calls[j].call = "resetCommandBuffer" /\ calls[j].state = "invalid"

\* C5: when the acquire of jvk::Engine::draw reports out-of-date,
\* windowResize_ is set and draw() returns with no command recorded, no
\* submission and no present.
C5_OutOfDateAcquireAbandons ==
    (/\ impl = "Engine"
     /\ \E i \in 1..Len(calls) :
           /\ calls[i].call = "acquire"
           /\ calls[i].result = "VK_ERROR_OUT_OF_DATE_KHR")
    => /\ windowResize_
       /\ drawResult = "abandoned"
       /\ \A j \in 1..Len(calls) :
             calls[j].call \notin {"resetCommandBuffer", "begin", "end",
                                   "submit", "present", "frameNumber++"}

C5_Witness ==
    /\ impl = "Engine"
    /\ drawResult = "abandoned"
    /\ windowResize_
    /\ frameNumber_ = 1
    /\ CallNames(calls) =
          <<"waitFence", "flush", "clearPools", "resetFence", "acquire">>
    /\ calls[5].result = "VK_ERROR_OUT_OF_DATE_KHR"

\* C6: after a jvk::Engine::draw() that returned early on an out-of-date
\* acquire, the next iteration of run() (with the queue drained, so that the
\* rebuild of the swapchain returns) can get past the fence wait of its
\* draw() and complete a frame.
C6_AbandonedFrameRecovers ==
    (impl = "Engine" /\ pc = "running" /\ drawResult = "abandoned"
        /\ ~stopRendering_ /\ gpuQueue = <<>>)
    => \E in \in Inputs(Engine_run_head(State, <<>>), FALSE) :
          Engine_run(State, <<>>, in).drawResult = "completed"

\* C7: in every recorded command buffer the transitions of the draw image
\* are UNDEFINED->GENERAL, GENERAL->COLOR_ATTACHMENT_OPTIMAL,
\* COLOR_ATTACHMENT_OPTIMAL->TRANSFER_SRC_OPTIMAL, those of the swapchain
\* image of the frame (one image, the acquired one when the acquire gave an
\* index) are UNDEFINED->TRANSFER_DST_OPTIMAL,
\* TRANSFER_DST_OPTIMAL->COLOR_ATTACHMENT_OPTIMAL,
\* COLOR_ATTACHMENT_OPTIMAL->PRESENT_SRC_KHR, there is no other transition
\* of the two, and the last of the draw image comes before the first of the
\* swapchain image.
C7_TransitionOrder ==
    /\ \A s \in Slots :
          Recorded(s) =>
             LET cmds == frames_[s].mainCommandBuffer.cmds
             IN  /\ Transitions(cmds, drawImage_) = DrawImageTransitions
                 /\ \E i \in IndexValues :
                       /\ SwapchainTargets(cmds) = {SwapchainImage(i)}
                       /\ Transitions(cmds, SwapchainImage(i)) =
                             SwapchainImageTransitions
                       /\ \A a \in TransitionPositions(cmds, drawImage_) :
                             \A b \in TransitionPositions(cmds, SwapchainImage(i)) :
                                a < b
    /\ \A a \in 1..Len(calls) :
          (/\ calls[a].call = "acquire"
           /\ Acquired(calls[a].result)
           /\ \E j \in 1..Len(calls) : calls[j].call = "end")
          => SwapchainTargets(frames_[DrawSlot].mainCommandBuffer.cmds) =
                {SwapchainImage(calls[a].index)}

\* jvk::Engine has recorded both command buffers, for two different images
C7_Witness ==
    /\ impl = "Engine"
    /\ drawResult = "completed"
    /\ \A s \in Slots : Recorded(s)
    /\ SwapchainTargets(frames_[0].mainCommandBuffer.cmds) = {SwapchainImage(0)}
    /\ SwapchainTargets(frames_[1].mainCommandBuffer.cmds) = {SwapchainImage(2)}

\* the depth image is never copied from or to, and never transitioned to a
\* transfer or present layout
DepthNeverTransferred(cmds) ==
    \A k \in 1..Len(cmds) :
       /\ cmds[k].cmd = "copyImage" =>
             cmds[k].src # depthImage_ /\ cmds[k].dst # depthImage_
       /\ IsTransitionOf(cmds[k], depthImage_) =>
             cmds[k].newLayout \notin {"TRANSFER_SRC_OPTIMAL",
                                       "TRANSFER_DST_OPTIMAL", "PRESENT_SRC_KHR"}

\* the one transition of the depth image, recorded before geometry rendering
DepthTransitionedOnce(cmds) ==
    /\ Transitions(cmds, depthImage_) =
          << <<"UNDEFINED", "DEPTH_ATTACHMENT_OPTIMAL">> >>
    /\ \A d \in TransitionPositions(cmds, depthImage_) :
          \A k \in 1..Len(cmds) :
             cmds[k].cmd \in {"vkCmdBeginRendering", "vkCmdDrawIndexed",
                              "vkCmdDraw"} => d < k

\* C8 (as the spec states it): in every recorded frame the depth image is
\* transitioned UNDEFINED->DEPTH_ATTACHMENT_OPTIMAL exactly once, before
\* geometry rendering, and is never copied or moved to a transfer or present
\* layout.
C8_DepthInEveryFrame ==
    \A s \in Slots :
       Recorded(s) =>
          /\ DepthTransitionedOnce(frames_[s].mainCommandBuffer.cmds)
          /\ DepthNeverTransferred(frames_[s].mainCommandBuffer.cmds)

\* C8 (amended): that holds of every frame jvk::Engine::draw records;
\* JVKEngine::draw records no transition of a depth image and renders
\* geometry without a depth attachment; in neither engine is the depth image
\* copied or moved to a transfer or present layout.
C8_DepthInEngineFrames ==
    \A s \in Slots :
       Recorded(s) =>
          LET cmds == frames_[s].mainCommandBuffer.cmds
          IN  /\ impl = "Engine" => DepthTransitionedOnce(cmds)
              /\ impl = "JVKEngine" =>
                    /\ Transitions(cmds, depthImage_) = <<>>
                    /\ \A k \in 1..Len(cmds) :
                          cmds[k].cmd = "vkCmdBeginRendering" =>
                             cmds[k].info.depthAttachment = NullAttachment
              /\ DepthNeverTransferred(cmds)

C8_Witness ==
    /\ impl = "Engine"
    /\ Recorded(1)
    /\ TransitionPositions(frames_[1].mainCommandBuffer.cmds, depthImage_) = {4}
    /\ frames_[1].mainCommandBuffer.cmds[5].cmd = "vkCmdBeginRendering"
    /\ frames_[1].mainCommandBuffer.cmds[5].info.depthAttachment.imageView =
          depthImage_

\* C9: every submission of draw() submits the slot's command buffer, waits
\* on the slot's acquire semaphore at color-attachment-output, signals the
\* slot's render semaphore at all-graphics and passes the slot's fence; the
\* present that follows waits on that render semaphore and presents the
\* index the acquire of the same draw() returned.
C9_SubmitPresentWiring ==
    \A k \in 1..Len(calls) :
       /\ calls[k].call = "submit" =>
             /\ calls[k].info.commandBufferInfoCount = 1
             /\ calls[k].info.pCommandBufferInfos = DrawSlot
             /\ calls[k].info.waitSemaphoreInfoCount = 1
             /\ calls[k].info.pWaitSemaphoreInfos =
                   [semaphore |-> Handle("swapchainSemaphore", DrawSlot),
                    stageMask |-> "COLOR_ATTACHMENT_OUTPUT"]
             /\ calls[k].info.signalSemaphoreInfoCount = 1
             /\ calls[k].info.pSignalSemaphoreInfos =
                   [semaphore |-> Handle("drawSemaphore", DrawSlot),
                    stageMask |-> "ALL_GRAPHICS"]
             /\ calls[k].fence = Handle("drawFence", DrawSlot)
       /\ calls[k].call = "present" =>
             /\ calls[k].info.waitSemaphoreCount = 1
             /\ calls[k].info.pWaitSemaphores = Handle("drawSemaphore", DrawSlot)
             /\ \E a \in 1..(k - 1) :
                   /\ calls[a].call = "acquire"
                   /\ Acquired(calls[a].result)
                   /\ calls[a].index = calls[k].info.pImageIndices

\* C10: a jvk::Engine::draw() that completes a frame has, on one slot and in
\* this order, waited on the fence, flushed the deletion queue, cleared the
\* descriptor pools, (reset the fence,) acquired, reset, begun and ended the
\* command buffer, submitted, presented and advanced the frame number, and
\* nothing else.
C10_DrawStepOrder ==
    (impl = "Engine" /\ drawResult = "completed") =>
       /\ CallNames(calls) =
             <<"waitFence", "flush", "clearPools", "resetFence", "acquire",
               "resetCommandBuffer", "begin", "end", "submit", "present",
               "frameNumber++">>
       /\ DrawSlot = getCurrentFrame(frameNumber_ - 1)
       /\ \A k \in {1, 2, 3, 4, 6, 7, 8} : calls[k].slot = DrawSlot
       /\ calls[5].semaphore.slot = DrawSlot
       /\ calls[9].fence.slot = DrawSlot
       /\ calls[10].info.pWaitSemaphores.slot = DrawSlot

C10_Witness ==
    /\ impl = "Engine"
    /\ drawResult = "completed"
    /\ frameNumber_ = 3
    /\ Len(calls) = 11
    /\ calls[1] = [call |-> "waitFence", slot |-> 0, result |-> "VK_SUCCESS",
                   signaled |-> TRUE, pending |-> 0]
    /\ calls[11].call = "frameNumber++"

\* the positions of the recorded calls named n
CallsNamed(n) == {k \in 1..Len(calls) : calls[k].call = n}

\* the flush of a frame slot's deletion queue at position k ran something
RanRelease(k) == calls[k].call = "flush" /\ calls[k].ran # <<>>

C11_ShutdownRuns ==
    /\ pc = "destroyed"
    /\ \E k \in 1..Len(calls) : RanRelease(k)
\* C12: the global deletion queue is flushed once in the life of an engine:
\* no call of init, run, draw or resizeSwapchain flushes it or takes anything
\* off it, and the shutdown flushes it exactly once, after the device-wide
\* idle wait, running everything init pushed.
C12_GlobalFlushedOnce ==
    /\ \A k \in CallsNamed("globalDeletionQueue_.flush") :
           /\ pc = "destroyed"
           /\ \E j \in 1..(k - 1) : calls[j].call = "vkDeviceWaitIdle"
    /\ (impl = "Engine" /\ pc \in {"initialized", "running", "returned", "aborted"})
           => globalDeletionQueue_ = PushAll(<<>>, Engine_teardown)
    /\ (pc = "destroyed" /\ isInit_)
           => /\ Cardinality(CallsNamed("globalDeletionQueue_.flush")) = 1
              /\ globalDeletionQueue_ = <<>>
              /\ impl = "Engine" =>
                    \A k \in CallsNamed("globalDeletionQueue_.flush") :
                        calls[k].ran = Reverse(PushAll(<<>>, Engine_teardown))

\* an engine that drew frames has been shut down and its releases have run
C12_Witness ==
    /\ pc = "destroyed"
    /\ impl = "Engine"
    /\ frameNumber_ > 0
    /\ \E k \in CallsNamed("globalDeletionQueue_.flush") : calls[k].ran # <<>>
\* the byte sizes uploadMesh computes from its arguments
VertexBytes == mesh.vertices * sizeofVertex
IndexBytes == mesh.indices * sizeofIndex

\* C13: uploadMesh with Nv bytes of vertices and Ni bytes of indices creates
\* a vertex buffer of Nv bytes, an index buffer of Ni bytes and a staging
\* buffer of Nv + Ni bytes, writes the vertices to staging [0, Nv) and the
\* indices to [Nv, Nv + Ni), and records exactly two copies: Nv bytes from
\* staging offset 0 to vertex offset 0, Ni bytes from staging offset Nv to
\* index offset 0.  The source ranges are disjoint, each copy fills its
\* destination exactly, and once the call has returned the two buffers hold
\* the vertices and the indices.
C13_UploadLayout ==
    mesh.pc # "idle" =>
        /\ mesh.vertexBuffer.size = VertexBytes
        /\ mesh.indexBuffer.size = IndexBytes
        /\ mesh.staging.size = VertexBytes + IndexBytes
        /\ \A b \in 0..(VertexBytes - 1) : mesh.staging.data[b] = Byte("vertices", b)
        /\ \A b \in VertexBytes..(VertexBytes + IndexBytes - 1) :
               mesh.staging.data[b] = Byte("indices", b - VertexBytes)
        /\ mesh.cmds =
             <<vkCmdCopyBuffer("staging", "vertexBuffer", 0, 0, VertexBytes),
               vkCmdCopyBuffer("staging", "indexBuffer", VertexBytes, 0, IndexBytes)>>
        /\ mesh.cmds[1].srcOffset + mesh.cmds[1].size <= mesh.cmds[2].srcOffset
        /\ \A k \in 1..Len(mesh.cmds) :
               /\ mesh.cmds[k].dstOffset = 0
               /\ mesh.cmds[k].size = mesh[mesh.cmds[k].dst].size
               /\ mesh.cmds[k].srcOffset + mesh.cmds[k].size <= mesh.staging.size
        /\ mesh.pc = "returned" =>
               /\ mesh.vertexBuffer.data =
                     [b \in 0..(VertexBytes - 1) |-> Byte("vertices", b)]
               /\ mesh.indexBuffer.data =
                     [b \in 0..(IndexBytes - 1) |-> Byte("indices", b)]

\* an upload of several vertices and indices has returned
C13_Witness ==
    /\ mesh.pc = "returned"
    /\ mesh.vertices > 1
    /\ mesh.indices > 1

\* the copies the device has executed so far
CopiesDone == {k \in 1..Len(mesh.log) : "copy" \in DOMAIN mesh.log[k]}

\* C14: the immediate submit is blocking: it returns only after the fence of
\* its submission has signalled, so uploadMesh destroys the staging buffer
\* only when no copy that reads it is pending, and every copy the device
\* executes reads a live staging buffer.
C14_ImmediateSubmitBlocks ==
    /\ \A k \in CopiesDone : mesh.log[k].srcAlive
    /\ mesh.pc = "returned" =>
           /\ mesh.immFence.signaled
           /\ mesh.queue = <<>>
           /\ Cardinality(CopiesDone) = Len(mesh.cmds)
    /\ (mesh.pc # "idle" /\ ~mesh.staging.alive) => mesh.queue = <<>>

\* the staging buffer has been destroyed after both copies were executed
C14_Witness ==
    /\ mesh.pc = "returned"
    /\ ~mesh.staging.alive
    /\ Cardinality(CopiesDone) = 2
\* the pools a growable allocator holds, available ones first
DynamicPools == descriptors.readyPools \o descriptors.fullPools

\* the pool of the growable allocator with identity i
PoolById(i) == CHOOSE p \in {DynamicPools[k] : k \in 1..Len(DynamicPools)} : p.id = i

\* the last call was an allocate that found its pool exhausted and had no
\* other available pool
GrewByAllocate ==
    /\ descriptors.last.op = "allocate"
    /\ descriptors.last.first # "VK_SUCCESS"
    /\ descriptors.last.readyBefore = 0

\* C15: when the growable allocator's pool is exhausted and no retired and
\* reset pool is available, allocate creates exactly one new pool, sized from
\* the same ratios with the set count of the previous pool times 1.5
\* (capped); the exhausted pool is retired to the full list, neither
\* destroyed nor resized, and the allocation succeeds from the new pool.
C15_GrowthOnExhaustion ==
    GrewByAllocate =>
        LET new == PoolById(descriptors.created)
            old == PoolById(descriptors.last.tried)
        IN  /\ descriptors.created = descriptors.last.before + 1
            /\ Len(DynamicPools) = descriptors.created
            /\ descriptors.destroyed = 0
            /\ descriptors.last.result = "VK_SUCCESS"
            /\ descriptors.last.from = new.id
            /\ new = descriptors.readyPools[Len(descriptors.readyPools)]
            /\ new.used = 1
            /\ new.maxSets =
                 Min((PoolById(descriptors.created - 1).maxSets * 3) \div 2,
                     maxSetsPerPool)
            /\ new.poolSizes = [t \in DOMAIN frameSizes |-> frameSizes[t] * new.maxSets]
            /\ \E k \in 1..Len(descriptors.fullPools) : descriptors.fullPools[k] = old
            /\ old.used = old.maxSets
            /\ old.poolSizes = [t \in DOMAIN frameSizes |-> frameSizes[t] * old.maxSets]

\* an allocate grew the allocator by a pool larger than the exhausted one
C15_Witness ==
    /\ GrewByAllocate
    /\ descriptors.created >= 2
    /\ PoolById(descriptors.created).maxSets > PoolById(descriptors.last.tried).maxSets

\* C16: clearPools never changes the number of pools: it creates none and
\* destroys none, and afterwards every pool, the retired ones included, is
\* available and holds no set.
C16_ClearPoolsKeepsPools ==
    descriptors.last.op = "clearPools" =>
        /\ Len(DynamicPools) = descriptors.last.pools
        /\ descriptors.created = descriptors.last.before
        /\ descriptors.destroyed = 0
        /\ descriptors.fullPools = <<>>
        /\ Len(descriptors.readyPools) = descriptors.created
        /\ \A k \in 1..Len(descriptors.readyPools) :
               /\ descriptors.readyPools[k].used = 0
               /\ vkAllocateDescriptorSets(descriptors.readyPools[k]) = "VK_SUCCESS"

\* clearPools was called with retired pools
C16_Witness ==
    /\ descriptors.last.op = "clearPools"
    /\ descriptors.last.retired >= 2
    /\ Len(descriptors.readyPools) >= 3

\* C17: the static allocator owns exactly one pool; an allocate on the
\* exhausted pool gives the caller the native error and creates no pool;
\* resetPool returns every set and keeps the same pool, usable again.
C17_StaticSinglePool ==
    descriptors.pc = "ready" =>
        /\ descriptors.poolsCreated = 1
        /\ descriptors.pool.id = 1
        /\ descriptors.pool.poolSizes =
              [t \in DOMAIN staticSizes |-> staticSizes[t] * descriptors.pool.maxSets]
        /\ descriptors.last.op = "static.allocate" =>
              IF descriptors.last.usedBefore = descriptors.pool.maxSets
              THEN /\ descriptors.last.result = "VK_ERROR_OUT_OF_POOL_MEMORY"
                   /\ descriptors.pool.used = descriptors.last.usedBefore
              ELSE /\ descriptors.last.result = "VK_SUCCESS"
                   /\ descriptors.pool.used = descriptors.last.usedBefore + 1
        /\ descriptors.last.op = "static.resetPool" =>
              /\ descriptors.pool.used = 0
              /\ descriptors.last.from = descriptors.pool.id
              /\ vkAllocateDescriptorSets(descriptors.pool) = "VK_SUCCESS"

\* an allocate on the exhausted static pool has failed
C17_Witness ==
    /\ descriptors.last.op = "static.allocate"
    /\ descriptors.last.result = "VK_ERROR_OUT_OF_POOL_MEMORY"
    /\ descriptors.pool.used = descriptors.pool.maxSets

\* the static pool was reset after it had been exhausted
C17_ResetAfterExhaustion ==
    /\ descriptors.last.op = "static.resetPool"
    /\ descriptors.last.usedBefore = descriptors.pool.maxSets
\* an initVulkan() that failed is at position k of the recorded calls
InitVulkanFailed(k) == calls[k].call = "initVulkan" /\ calls[k].result \in InitFailures

\* C18: when instance creation or physical-device selection fails during
\* init, the process is aborted at once: no later initialisation step runs
\* and the engine never becomes initialised.
C18_InitFailureAborts ==
    \A k \in 1..Len(calls) :
        InitVulkanFailed(k) =>
            /\ pc = "aborted"
            /\ ~isInit_
            /\ \A j \in (k + 1)..Len(calls) : calls[j].call = "abort"

\* the failure is handled as claimed by JVKEngine::initVulkan
C18_JVKEngineAborts ==
    /\ impl = "JVKEngine"
    /\ pc = "aborted"
    /\ \E k \in 1..Len(calls) : InitVulkanFailed(k)
\* a result that is an error other than out-of-date
NativeError(r) ==
    r \notin {"VK_SUCCESS", "VK_SUBOPTIMAL_KHR", "VK_ERROR_OUT_OF_DATE_KHR"}

\* C19: a native call of draw() that returns an error other than out-of-date
\* (here: the acquire or the present) terminates the process: nothing of
\* draw() follows it.
C19_NativeErrorsFatal ==
    \A k \in 1..Len(calls) :
        (calls[k].call \in {"acquire", "present"} /\ NativeError(calls[k].result))
            => /\ pc = "aborted"
               /\ k = Len(calls)

\* JVKEngine::draw ends the process on such an error
C19_JVKEngineAborts ==
    /\ impl = "JVKEngine"
    /\ pc = "aborted"
    /\ calls # <<>>
    /\ calls[Len(calls)].call = "present"
    /\ NativeError(calls[Len(calls)].result)

\* C20: a wait on a frame's fence at the start of draw() that times out is
\* fatal: the process terminates with the wait as the last thing draw() did,
\* so the wait is not retried and nothing runs with the fence unsignalled.
C20_FenceTimeoutFatal ==
    \A k \in 1..Len(calls) :
        (calls[k].call = "waitFence" /\ calls[k].result = "VK_TIMEOUT")
            => /\ pc = "aborted"
               /\ drawResult = "fatal"
               /\ k = Len(calls)
               /\ ~calls[k].signaled

\* a draw() has ended the process on a timed-out wait with work on the device
C20_Witness ==
    /\ pc = "aborted"
    /\ calls # <<>>
    /\ calls[1].call = "waitFence"
    /\ calls[1].result = "VK_TIMEOUT"
    /\ calls[1].pending > 0

\* the wait of the immediate submit: a timeout ends the process before the
\* staging buffer is destroyed (checked under SpecUpload)
C20_ImmediateWaitFatal ==
    \A k \in 1..Len(mesh.log) :
        ("wait" \in DOMAIN mesh.log[k] /\ mesh.log[k].wait = "VK_TIMEOUT")
            => /\ mesh.pc = "aborted"
               /\ k = Len(mesh.log)
               /\ mesh.staging.alive

\* the immediate submit has timed out
C20_ImmediateTimedOut ==
    /\ mesh.pc = "aborted"
    /\ mesh.queue # <<>>
C21_SoftOutcome ==
    /\ pc = "brokenPipeline"
    /\ isInit_
    /\ CallsNamed("loadShaderModule") # {}
\* the names of what the most recent iteration of run() did
IterationNames == CallNames(iteration)

\* C22: whenever an iteration of jvk::Engine::run that found the resize flag
\* set calls draw(), it has before that waited for the device to be idle
\* (nothing was left on the queue), then destroyed the swapchain, then
\* rebuilt it with all its images and image views at the size the window has
\* at that moment, and draw() finds the resize flag cleared and the swapchain
\* at that size.
C22_ResizeBeforeDraw ==
    (impl = "Engine" /\ iteration # <<>> /\ iteration[1].windowResize
        /\ iteration[Len(iteration)].call = "draw") =>
        /\ IterationNames =
              <<"PollEvents", "vkDeviceWaitIdle", "swapchain_.destroy",
                "SDL_GetWindowSize", "swapchain_.init", "draw">>
        /\ iteration[2].pending = 0
        /\ iteration[5].extent = iteration[4].extent
        /\ iteration[5].images = ImageCount
        /\ iteration[5].imageViews = ImageCount
        /\ ~iteration[6].windowResize
        /\ iteration[6].extent = iteration[4].extent
        /\ windowExtent_ = iteration[4].extent
        /\ swapchain_.extent = iteration[4].extent

\* a draw() after a rebuild to a size other than the initial one, with
\* frames drawn before
C22_Witness ==
    /\ impl = "Engine"
    /\ Len(iteration) = 6
    /\ iteration[1].windowResize
    /\ iteration[6].call = "draw"
    /\ iteration[6].extent # InitialExtent
    /\ frameNumber_ >= 2
    /\ drawResult = "completed"

\* C23: while the stop-rendering flag is set the run loop calls neither
\* draw() nor resizeSwapchain(): an iteration that ends with the flag set
\* has polled the events and slept and nothing else, so it issued no
\* acquire, submit or present; an iteration that ends with the flag clear
\* (in particular the one that polled the restored event) has called draw().
C23_NoDrawWhileStopped ==
    (pc \in {"running", "returned", "aborted"} /\ iteration # <<>>) =>
        /\ stopRendering_ => IterationNames = <<"PollEvents", "sleep_for">>
        /\ (~stopRendering_ /\ drawResult # "blocked") =>
               iteration[Len(iteration)].call = "draw"

\* the window was minimized after frames were drawn and with a resize
\* pending: the iteration slept
C23_Witness ==
    /\ stopRendering_
    /\ windowResize_
    /\ frameNumber_ > 0
    /\ IterationNames = <<"PollEvents", "sleep_for">>
\* the positions in cmds at which the rendering scope of the UI overlay begins
UIScopes(cmds) ==
    {k \in 1..(Len(cmds) - 1) :
        /\ cmds[k].cmd = "vkCmdBeginRendering"
        /\ cmds[k + 1].cmd = "ImGui_ImplVulkan_RenderDrawData"}

\* calls is the log of a draw() that recorded its command buffer
DrawRecorded ==
    /\ calls # <<>>
    /\ calls[1].call = "waitFence"
    /\ CallsNamed("end") # {}

\* the shape of the UI scope in every recorded command buffer, and what
\* attachmentInfo does with its clear argument
UIScopeShape ==
    /\ \A clear \in {"nullptr", "clearValue"} :
          (attachmentInfo(drawImage_, clear, "GENERAL").loadOp = "CLEAR")
             <=> (clear # "nullptr")
    /\ \A s \in Slots :
          LET cmds == frames_[s].mainCommandBuffer.cmds
          IN  /\ Recorded(s) => Cardinality(UIScopes(cmds)) = 1
              /\ \A k \in UIScopes(cmds) :
                    /\ cmds[k].info.colorAttachmentCount = 1
                    /\ cmds[k].info.colorAttachment.imageView.image = "swapchain_.images"
                    /\ cmds[k].info.colorAttachment.loadOp = "LOAD"
                    /\ cmds[k].info.colorAttachment.storeOp = "STORE"
                    /\ cmds[k].info.depthAttachment = NullAttachment
                    /\ cmds[k].info.stencilAttachment = NullAttachment
                    /\ cmds[k + 2].cmd = "vkCmdEndRendering"
    /\ DrawRecorded =>
          \A k \in UIScopes(frames_[DrawSlot].mainCommandBuffer.cmds) :
             frames_[DrawSlot].mainCommandBuffer.cmds[k].info.renderArea =
                swapchain_.extent

\* C24: the UI overlay is drawn inside a rendering scope with exactly one
\* color attachment, the view of the swapchain image acquired for this
\* frame, no depth and no stencil attachment, load op LOAD, store op STORE
\* and the swapchain extent as render area; attachmentInfo gives load op
\* CLEAR exactly when a clear value is supplied.
C24_UIScope ==
    /\ UIScopeShape
    /\ DrawRecorded =>
          \A k \in UIScopes(frames_[DrawSlot].mainCommandBuffer.cmds) :
             \E a \in CallsNamed("acquire") :
                /\ Acquired(calls[a].result)
                /\ frames_[DrawSlot].mainCommandBuffer.cmds[k].info.colorAttachment.imageView
                      = SwapchainImage(calls[a].index)

\* the same for the draws whose acquire returned an image
C24_UIScopeOfAcquired ==
    /\ UIScopeShape
    /\ (DrawRecorded /\ \A a \in CallsNamed("acquire") : Acquired(calls[a].result)) =>
          \A k \in UIScopes(frames_[DrawSlot].mainCommandBuffer.cmds) :
             \E a \in CallsNamed("acquire") :
                frames_[DrawSlot].mainCommandBuffer.cmds[k].info.colorAttachment.imageView
                   = SwapchainImage(calls[a].index)

(***************************************************************************)
(* Claims about the reuse of the frame slots, checked under Spec.          *)
(***************************************************************************)
\* the frame number the draw() in calls started with
DrawFrameNumber ==
    IF drawResult = "completed" THEN frameNumber_ - 1 ELSE frameNumber_

\* a draw() is in calls
DrawLogged == calls # <<>> /\ calls[1].call = "waitFence"

\* the slots of the submissions the device has not finished, oldest first
QueuedSlots ==
    LET subs == SelectSeq(gpuQueue, LAMBDA q : q.op = "submit")
    IN  [k \in 1..Len(subs) |-> subs[k].fence.slot]

SlotRule ==
    /\ DrawLogged =>
          /\ DrawSlot = DrawFrameNumber % JVK_NUM_FRAMES
          /\ \A k \in 1..Len(calls) :
                /\ "slot" \in DOMAIN calls[k] => calls[k].slot = DrawSlot
                /\ calls[k].call = "submit" => calls[k].fence.slot = DrawSlot
    /\ \A k \in 1..(Len(QueuedSlots) - 1) :
          QueuedSlots[k + 1] = (QueuedSlots[k] + 1) % JVK_NUM_FRAMES

\* the draw() in calls began, after its fence wait, by flushing the slot's
\* deletion queue and clearing its descriptor pools
DrainedAtStart ==
    /\ Len(calls) >= 3
    /\ calls[2].call = "flush" /\ calls[2].slot = DrawSlot
    /\ calls[3].call = "clearPools" /\ calls[3].slot = DrawSlot
    /\ \A k \in 4..Len(calls) : calls[k].call \notin {"flush", "clearPools"}

LayoutAt(cmds, k, img) ==
    LET ts == {j \in 1..(k - 1) : IsTransitionOf(cmds[j], img)}
    IN  IF ts = {} THEN "left by earlier frames"
        ELSE cmds[CHOOSE j \in ts : \A i \in ts : i <= j].newLayout

\* the <<image, layout>> pairs command c declares
Declares(c) ==
    CASE c.cmd \in {"vkCmdClearColorImage", "vkCmdDispatch"} ->
            {<<c.image, c.layout>>}
      [] c.cmd = "vkCmdBeginRendering" ->
            {<<a.imageView, a.imageLayout>> :
                a \in {c.info.colorAttachment, c.info.depthAttachment,
                       c.info.stencilAttachment} \ {NullAttachment}}
      [] c.cmd = "copyImage" ->
            {<<c.src, copyImage_layouts.src>>, <<c.dst, copyImage_layouts.dst>>}
      [] OTHER -> {}

\* every command of cmds finds the layouts it declares, wherever the
\* earlier frames left the images
LayoutsAsDeclared(cmds) ==
    \A k \in 1..Len(cmds) :
       /\ \A d \in Declares(cmds[k]) : LayoutAt(cmds, k, d[1]) = d[2]
       /\ cmds[k].cmd = "transitionImage" =>
             cmds[k].oldLayout \in
                {"UNDEFINED", LayoutAt(cmds, k, cmds[k].image)}

\* the layouts the commands of cmds named n declare
DeclaredBy(cmds, n) ==
    UNION {Declares(cmds[k]) : k \in {j \in 1..Len(cmds) : cmds[j].cmd = n}}

\* C26: in every recorded command buffer, whatever layouts the earlier
\* frames left the images in, every command finds each image in the layout
\* it declares (clear/compute: draw image GENERAL; geometry: draw image
\* COLOR_ATTACHMENT_OPTIMAL and, in jvk::Engine, depth image
\* DEPTH_ATTACHMENT_OPTIMAL; blit: TRANSFER_SRC_OPTIMAL to
\* TRANSFER_DST_OPTIMAL; UI: swapchain image COLOR_ATTACHMENT_OPTIMAL),
\* every transition's old layout is UNDEFINED or the layout the image
\* holds, and the image handed to present is in PRESENT_SRC_KHR.
C26_LayoutsHeld ==
    /\ \A s \in Slots :
          Recorded(s) =>
             LET cmds == frames_[s].mainCommandBuffer.cmds
             IN  /\ LayoutsAsDeclared(cmds)
                 /\ DeclaredBy(cmds, "vkCmdClearColorImage")
                      \cup DeclaredBy(cmds, "vkCmdDispatch")
                        = {<<drawImage_, "GENERAL">>}
                 /\ <<drawImage_, "COLOR_ATTACHMENT_OPTIMAL">>
                        \in DeclaredBy(cmds, "vkCmdBeginRendering")
                 /\ impl = "Engine" =>
                        <<depthImage_, "DEPTH_ATTACHMENT_OPTIMAL">>
                           \in DeclaredBy(cmds, "vkCmdBeginRendering")
                 /\ \A d \in DeclaredBy(cmds, "vkCmdBeginRendering") :
                        d[1].image = "swapchain_.images"
                           => d[2] = "COLOR_ATTACHMENT_OPTIMAL"
    /\ \A p \in 1..Len(calls) :
          calls[p].call = "present" =>
             LET cmds == frames_[DrawSlot].mainCommandBuffer.cmds
             IN  LayoutAt(cmds, Len(cmds) + 1,
                          SwapchainImage(calls[p].info.pImageIndices))
                    = "PRESENT_SRC_KHR"

\* both slots of jvk::Engine hold a recorded frame, the third frame has been
\* presented and the frames went to different swapchain images
C26_Witness ==
    /\ impl = "Engine"
    /\ frameNumber_ = 3
    /\ drawResult = "completed"
    /\ \A s \in Slots : Recorded(s)
    /\ \E p \in 1..Len(calls) : calls[p].call = "present"
    /\ SwapchainTargets(frames_[0].mainCommandBuffer.cmds)
          # SwapchainTargets(frames_[1].mainCommandBuffer.cmds)

(***************************************************************************)
(* Claims about the fences handed to the queue.                            *)
(***************************************************************************)
\* the submissions in the queue that will signal fence f
PendingOn(f) ==
    {k \in 1..Len(gpuQueue) : gpuQueue[k].op = "submit" /\ gpuQueue[k].fence = f}

\* C27: the fence given to the per-frame submission of draw() is, at the
\* moment of the submission, unsignalled and attached to no pending
\* submission, so that afterwards at most this submission will signal it.
C27_FenceFreshAtSubmit ==
    \A k \in 1..Len(calls) :
        calls[k].call = "submit" =>
            /\ ~calls[k].signaled
            /\ calls[k].pending = 0
            /\ Cardinality(PendingOn(calls[k].fence)) <= 1

\* a frame was submitted while the submission of the other slot, with the
\* other fence, was still pending
C27_Witness ==
    /\ drawResult = "completed"
    /\ frameNumber_ = 3
    /\ \E k \in 1..Len(calls) :
          /\ calls[k].call = "submit"
          /\ ~calls[k].signaled
          /\ calls[k].fence = Handle("drawFence", 0)
          /\ Cardinality(PendingOn(calls[k].fence)) = 1
    /\ Cardinality(PendingOn(Handle("drawFence", 1))) = 1

\* C27, the immediate submit (under SpecUpload): while the copies handed to
\* the queue with the immediate fence are outstanding the fence is
\* unsignalled, and the fence was reset before they were handed over.
C27_ImmediateFenceFresh ==
    (mesh.pc = "waiting" /\ mesh.queue # <<>>) => ~mesh.immFence.signaled

(***************************************************************************)
(* Claims about the frame counter, checked under Spec.                     *)
(***************************************************************************)
\* this step ran a draw() of jvk::Engine
EngineDrawStep ==
    /\ impl = "Engine"
    /\ calls' # calls
    /\ calls' # <<>>
    /\ calls'[1].call = "waitFence"

\* what the draw() of this step did to the frame number
FrameNumberEffect ==
    LET submitted == \E k \in 1..Len(calls') : calls'[k].call = "submit"
        outOfDate == \E k \in 1..Len(calls') :
                        /\ calls'[k].call = "present"
                        /\ calls'[k].result = "VK_ERROR_OUT_OF_DATE_KHR"
    IN  /\ calls'[1].slot = frameNumber_ % JVK_NUM_FRAMES
        /\ submitted => frameNumber_' = frameNumber_ + 1
        /\ outOfDate => /\ submitted
                        /\ windowResize_'
                        /\ pc' \notin {"aborted", "crashed"}
        /\ ~submitted => frameNumber_' = frameNumber_
        /\ (drawResult = "abandoned" /\ calls # <<>>) =>
              calls'[1].slot = calls[1].slot

\* C28: a jvk::Engine::draw that reaches its submission advances the
\* frame number by exactly one, also when present reports out-of-date (which
\* sets windowResize_ and does not end the process); a draw() that returns
\* before the submission leaves the frame number as it was, and the draw()
\* after an abandoned one works on the same slot.
C28_FrameNumberAdvance == [][EngineDrawStep => FrameNumberEffect]_vars

\* a frame whose present reported out-of-date was counted
C28_Witness ==
    /\ impl = "Engine"
    /\ drawResult = "completed"
    /\ frameNumber_ = 2
    /\ windowResize_
    /\ \E k \in 1..Len(calls) :
          /\ calls[k].call = "present"
          /\ calls[k].result = "VK_ERROR_OUT_OF_DATE_KHR"
    /\ calls[Len(calls)].call = "frameNumber++"

\* the draw() after an abandoned one has started on the slot of the
\* abandoned frame
C28_Retried ==
    /\ impl = "Engine"
    /\ frameNumber_ = 1
    /\ calls # <<>>
    /\ calls[1].call = "waitFence" /\ calls[1].slot = 1
    /\ ~calls[1].signaled /\ calls[1].pending = 0

(***************************************************************************)
(* Claims about the creation of the fences.                                *)
(***************************************************************************)
\* this step ran the first draw() on a slot: the frame number is below
\* JVK_NUM_FRAMES and no draw() of this frame number was abandoned before
FirstDrawStep ==
    /\ calls' # calls
    /\ calls' # <<>>
    /\ calls'[1].call = "waitFence"
    /\ frameNumber_ < JVK_NUM_FRAMES
    /\ drawResult \in {"none", "completed"}

\* C29: init() leaves the fence of every slot signalled, and the first
\* draw() on each slot finds the fence signalled with no submission ever
\* made on the slot, so that its wait returns VK_SUCCESS.
C29_FirstWaitPasses ==
    [][/\ (pc = "constructed" /\ pc' = "initialized") =>
             \A s \in Slots : /\ frames_'[s].drawFence.signaled
                              /\ frames_'[s].drawFence.pending = 0
       /\ FirstDrawStep =>
             /\ calls'[1].slot = frameNumber_
             /\ frames_[calls'[1].slot].mainCommandBuffer.state = "initial"
             /\ calls'[1].signaled
             /\ calls'[1].pending = 0
             /\ calls'[1].result = "VK_SUCCESS"]_vars

\* the first draw() on slot 1 got past its wait and recorded into a command
\* buffer that had never been used
C29_Witness ==
    /\ drawResult = "completed"
    /\ frameNumber_ = 2
    /\ calls[1].call = "waitFence" /\ calls[1].slot = 1
    /\ calls[1].signaled /\ calls[1].pending = 0
    /\ \E k \in 1..Len(calls) :
          calls[k].call = "resetCommandBuffer" /\ calls[k].state = "initial"

\* C29, the immediate fence (under SpecUpload): before the first immediate
\* submit the fence is signalled
C29_ImmediateFenceSignalled ==
    mesh.pc = "idle" => mesh.immFence.signaled

(***************************************************************************)
(* Claims about the order of teardown, checked under Spec.                 *)
(***************************************************************************)
\* the position of x in the sequence q (0 when x is not in q)
PositionIn(q, x) ==
    IF \E k \in 1..Len(q) : q[k] = x
    THEN CHOOSE k \in 1..Len(q) : q[k] = x
    ELSE 0

\* the registered teardown actions that free memory of the allocator:
\* the images of initSwapchain and the mesh buffers of initDummyData
AllocatorUsers == {"depthImage_ drawImage_", "scene"}

\* C30: in a jvk::Engine::destroy of an initialised engine the device-wide
\* idle wait is the first call and returns with nothing pending; the global
\* deletion queue then runs every registered action once, a later
\* registered one before an earlier registered one, so that the allocator,
\* registered first, goes last, after the images and the mesh buffers; and
\* the swapchain and the context are destroyed after that flush, with the
\* global queue empty.
C30_TeardownOrder ==
    (impl = "Engine" /\ pc = "destroyed" /\ isInit_) =>
        /\ calls[1].call = "vkDeviceWaitIdle"
        /\ calls[1].pending = 0
        /\ Cardinality(CallsNamed("vkDeviceWaitIdle")) = 1
        /\ \E g \in CallsNamed("globalDeletionQueue_.flush") :
              LET ran == calls[g].ran
              IN  /\ Len(ran) = Len(Engine_teardown)
                  /\ \A i, j \in 1..Len(Engine_teardown) :
                        i < j => /\ PositionIn(ran, Engine_teardown[j]) > 0
                                 /\ PositionIn(ran, Engine_teardown[j])
                                      < PositionIn(ran, Engine_teardown[i])
                  /\ Engine_teardown[1] = "allocator_"
                  /\ PositionIn(ran, "allocator_") = Len(ran)
                  /\ \A a \in AllocatorUsers :
                        /\ PositionIn(ran, a) > 0
                        /\ PositionIn(ran, a) < PositionIn(ran, "allocator_")
                  /\ CallsNamed("swapchain_.destroy") # {}
                  /\ CallsNamed("context_.destroy") # {}
                  /\ \A k \in CallsNamed("swapchain_.destroy")
                               \cup CallsNamed("context_.destroy") : g < k
        /\ globalDeletionQueue_ = <<>>

\* an engine that drew frames and returned from run() has been destroyed
C30_Witness ==
    /\ impl = "Engine"
    /\ pc = "destroyed"
    /\ isInit_
    /\ frameNumber_ = 2
    /\ CallNames(calls)[Len(calls) - 2] = "swapchain_.destroy"
    /\ \E g \in CallsNamed("globalDeletionQueue_.flush") :
          calls[g].ran[1] = "scene"

(***************************************************************************)
(* Claims about the end of run(), checked under Spec.                      *)
(***************************************************************************)
\* the calls of draw() in the most recent iteration of run()
DrawsInIteration == {k \in 1..Len(iteration) : iteration[k].call = "draw"}

\* C31: once an iteration of run() has polled a quit event there is no
\* further iteration: unless its draw() ended the process, run() has
\* returned at the end of that iteration, which called draw() at most once
\* and not at all when rendering was stopped.
C31_QuitEndsRun ==
    (iteration # <<>> /\ iteration[1].quit) =>
        /\ pc \in {"returned", "aborted", "destroyed"}
        /\ pc = "aborted" => drawResult = "fatal"
        /\ Cardinality(DrawsInIteration) <= 1
        /\ stopRendering_ => DrawsInIteration = {}

\* run() returned after an iteration that polled the quit event and drew
\* one more frame
C31_Witness ==
    /\ pc = "returned"
    /\ iteration[1].quit
    /\ Cardinality(DrawsInIteration) = 1
    /\ drawResult = "completed"
    /\ frameNumber_ = 2

\* run() returned from a stopped iteration without drawing
C31_StoppedQuit ==
    /\ pc = "returned"
    /\ iteration[1].quit
    /\ stopRendering_
    /\ DrawsInIteration = {}

(***************************************************************************)
(* Claims about repeated teardown, checked under SpecLifecycle.            *)
(***************************************************************************)
\* C32: no native object is destroyed more often than it was created: a
\* destroy()/cleanup() before init() destroys nothing, and one after a
\* completed destroy()/cleanup() destroys nothing.
C32_NoDoubleDestroy ==
    /\ \A o \in NativeObjects : natives[o] >= 0
    /\ pc = "constructed" =>
          /\ impl = "Engine" => Engine_destroy(State) = State
          /\ impl = "JVKEngine" => JVKEngine_cleanup(State) = State

\* C32, the part that holds: destroy()/cleanup() on an engine that was
\* never initialised changes nothing, and up to the end of the first
\* destroy()/cleanup() nothing is destroyed that was not created.
C32_FirstDestroySafe ==
    /\ pc = "constructed" =>
          /\ impl = "Engine" => Engine_destroy(State) = State
          /\ impl = "JVKEngine" => JVKEngine_cleanup(State) = State
    /\ pc # "destroyed" => \A o \in NativeObjects : natives[o] >= 0
    /\ (pc = "destroyed" /\ \E o \in NativeObjects : natives[o] < 0)
          => isInit_ /\ \A o \in NativeObjects : natives[o] = -1

\* the first destroy()/cleanup() of an initialised engine has completed
C32_DestroyedOnce ==
    /\ pc = "destroyed"
    /\ isInit_
    /\ \A o \in NativeObjects : natives[o] = 0

(***************************************************************************)
(* Claims about the draw extent, checked under Spec.                       *)
(***************************************************************************)
\* the extents the commands of cmds use on the draw image: geometry render
\* area, viewport, scissor and the source region of the blit
DrawExtentsUsed(cmds) ==
    {cmds[k].info.renderArea :
        k \in {j \in 1..Len(cmds) :
                 /\ cmds[j].cmd = "vkCmdBeginRendering"
                 /\ cmds[j].info.colorAttachment.imageView = drawImage_}}
    \cup {cmds[k].extent :
        k \in {j \in 1..Len(cmds) :
                 cmds[j].cmd \in {"vkCmdSetViewport", "vkCmdSetScissor"}}}
    \cup {cmds[k].srcSize :
        k \in {j \in 1..Len(cmds) : cmds[j].cmd = "copyImage"}}

\* C33: in jvk::Engine, whatever size the window was resized to, the draw
\* extent of every recorded frame (geometry render area, viewport, scissor,
\* blit source region) is within the extent of the draw image in both
\* dimensions.
C33_DrawExtentWithinImage ==
    impl = "Engine" =>
        \A s \in Slots : \A x \in DrawExtentsUsed(frames_[s].mainCommandBuffer.cmds) :
            /\ x.width <= DrawImageExtent.width
            /\ x.height <= DrawImageExtent.height

\* C33, the part that holds: the width of the draw extent is within the
\* width of the draw image, and the height is within the image's width
C33_WidthWithinImage ==
    impl = "Engine" =>
        \A s \in Slots : \A x \in DrawExtentsUsed(frames_[s].mainCommandBuffer.cmds) :
            /\ x.width <= DrawImageExtent.width
            /\ x.height <= DrawImageExtent.width

(***************************************************************************)
(* Claims about the semaphores.                                            *)
(***************************************************************************)
\* C34 (under SpecPresent): a submission the device may execute finds the
\* render semaphore it signals unsignalled: no present request that waits on
\* the semaphore's previous signal is still to consume it.
C34_RenderSemaphoreConsumed ==
    \A k \in Overtakers(State) :
        ~SemaphoreSignaled(State, gpuQueue[k].signal)

\* C34, the part that holds (under Spec): when the device executes the
\* queue strictly in order, present requests included, the submission at
\* the head of the queue finds the render semaphore it signals unsignalled.
C34_InQueueOrder ==
    (gpuQueue # <<>> /\ Head(gpuQueue).op = "submit"
        /\ Executable(State, Head(gpuQueue)))
    => ~SemaphoreSignaled(State, Head(gpuQueue).signal)

\* the slot's fence has signalled and the slot was reused while the present
\* request of its previous frame is still queued
C34_PresentOutstanding ==
    \E k \in 1..Len(gpuQueue) : \E j \in 1..(k - 1) :
        /\ gpuQueue[k].op = "submit"
        /\ gpuQueue[j].op = "present"
        /\ gpuQueue[j].wait = gpuQueue[k].signal

\* the acquire call of the last draw(), if it got that far
AcquireCalls == {k \in 1..Len(calls) : calls[k].call = "acquire"}

\* the submissions in the queue that wait on slot s's acquire semaphore
WaitersOn(s) ==
    {k \in 1..Len(gpuQueue) :
        /\ gpuQueue[k].op = "submit"
        /\ gpuQueue[k].wait = Handle("swapchainSemaphore", s)}

\* C35: the acquire semaphore handed to the acquire call carries no signal;
\* a signal an acquire has put on a slot's semaphore is waited for by exactly
\* one queued submission of that slot until it is consumed; and a draw()
\* abandoned on an out-of-date acquire leaves the slot's semaphore
\* unsignalled, as the retried acquire needs it.
C35_AcquireSemaphoreFree ==
    /\ \A k \in AcquireCalls : ~calls[k].signaled
    /\ \A s \in 0..(JVK_NUM_FRAMES - 1) :
          (pc # "aborted" /\ frames_[s].swapchainSemaphore)
              => Cardinality(WaitersOn(s)) = 1
    /\ drawResult = "abandoned" =>
          ~frames_[getCurrentFrame(frameNumber_)].swapchainSemaphore

\* a draw() was abandoned on an out-of-date acquire after the slot had
\* been through a whole frame: its semaphore was signalled and consumed
C35_Witness ==
    /\ drawResult = "abandoned"
    /\ frameNumber_ >= JVK_NUM_FRAMES
    /\ \E k \in AcquireCalls : calls[k].result = "VK_ERROR_OUT_OF_DATE_KHR"

\* a slot's semaphore was signalled by an acquire and consumed by the
\* slot's submission, and the slot acquires again
C35_Reacquired ==
    /\ frameNumber_ > JVK_NUM_FRAMES
    /\ drawResult = "completed"
    /\ \E k \in AcquireCalls : Acquired(calls[k].result)

(***************************************************************************)
(* The two rewrites of the frame function side by side.                    *)
(***************************************************************************)
\* the happy path: the fence wait passes, a free image is acquired and
\* presented with VK_SUCCESS
HappyInputs ==
    {in \in [acquire : {"VK_SUCCESS"}, index : Images, present : {"VK_SUCCESS"}] :
        AcquireCan(State, in.acquire, in.index)}

\* what a draw() that ended in state e recorded and wired: the transitions
\* of the draw image and the swapchain image, the blit, the submit and
\* present structures, and the frame number
Wiring(e, in) ==
    LET cmds == e.frames[getCurrentFrame(State.frameNumber)].mainCommandBuffer.cmds
        IsTransition(c) == /\ c.cmd = "transitionImage"
                           /\ c.image \in {drawImage_, SwapchainImage(in.index)}
        IsBlit(c)  == c.cmd = "copyImage"
        IsWire(c)  == c.call \in {"submit", "present"}
        Wire(c)    == IF c.call = "submit"
                      THEN [call |-> "submit", info |-> c.info, fence |-> c.fence]
                      ELSE [call |-> "present", info |-> c.info]
        wires      == SelectSeq(e.calls, IsWire)
    IN  [transitions |-> SelectSeq(cmds, IsTransition),
         blit        |-> SelectSeq(cmds, IsBlit),
         wiring      |-> [k \in 1..Len(wires) |-> Wire(wires[k])],
         frameNumber |-> e.frameNumber]

BothComplete(in) ==
    /\ Engine_draw(State, in).drawResult = "completed"
    /\ JVKEngine_draw(State, in).drawResult = "completed"

SameWiring(in) ==
    Wiring(Engine_draw(State, in), in) = Wiring(JVKEngine_draw(State, in), in)

\* C36 as stated: in every state in which an engine can draw, the two frame
\* functions record the same transitions of the draw image and the
\* swapchain image, the same blit and the same submit/present wiring for
\* the same acquired image, and both advance the frame number by one.
C36_DrawsEquivalent ==
    pc \in {"initialized", "running"} =>
        \A in \in HappyInputs : BothComplete(in) => SameWiring(in)

\* C36, amended: the same, as long as the swapchain still has the extent
\* it was created with, which is the extent of the draw image.
C36_DrawsEquivalentUnresized ==
    (pc \in {"initialized", "running"} /\ swapchain_.extent = DrawImageExtent) =>
        \A in \in HappyInputs :
            BothComplete(in) =>
                /\ SameWiring(in)
                /\ Engine_draw(State, in).frameNumber = frameNumber_ + 1
                /\ Len(Wiring(Engine_draw(State, in), in).transitions) = 6
                /\ Len(Wiring(Engine_draw(State, in), in).blit) = 1
                /\ Len(Wiring(Engine_draw(State, in), in).wiring) = 2

\* both frame functions complete a frame from a state that has already
\* drawn, on a swapchain of the original extent
C36_Witness ==
    /\ pc = "running"
    /\ frameNumber_ >= 1
    /\ swapchain_.extent = DrawImageExtent
    /\ \E in \in HappyInputs : BothComplete(in) /\ SameWiring(in)

\* the two differ only in the blit
C36_OnlyBlitDiffers ==
    pc \in {"initialized", "running"} =>
        \A in \in HappyInputs :
            BothComplete(in) =>
                LET E == Wiring(Engine_draw(State, in), in)
                    J == Wiring(JVKEngine_draw(State, in), in)
                IN  [E EXCEPT !.blit = <<>>] = [J EXCEPT !.blit = <<>>]

(***************************************************************************)
(* Claims about a flush whose actions push.                                *)
(***************************************************************************)
\* how often action f occurs in the sequence seq
Count(seq, f) == Cardinality({k \in 1..Len(seq) : seq[k] = f})

\* C37 (under SpecClosures): when flush() returns, every action pushed
\* before or during the flush has been run exactly once and the queue is
\* empty.
C37_ReentrantFlushExact ==
    lastCall \in {"flush", "flush pushed into"} =>
        /\ deletors = <<>>
        /\ \A f \in Actions : Count(invoked, f) = Count(lastBatch, f)

\* C37, the part that holds (under SpecClosures): a flush during which no
\* action pushes runs every action exactly once, and every flush returns
\* with the queue empty and has run as many actions as were pushed.
C37_PlainFlushExact ==
    /\ lastCall = "flush" =>
          \A f \in Actions : Count(invoked, f) = Count(lastBatch, f)
    /\ lastCall \in {"flush", "flush pushed into"} =>
          deletors = <<>> /\ Len(invoked) = Len(lastBatch)

\* a flush during which an action pushed has returned
C37_PushedInto == lastCall = "flush pushed into" /\ Len(lastBatch) >= 2

====
